---- MODULE Spec2Model ----
(***************************************************************************)
(* Model of the MiniC lowering pass (IRGenerator): the AST of a compile    *)
(* unit is lowered, one top-level definition at a time, into the linear    *)
(* instruction list of each function.  The handlers of IRGenerator.cpp     *)
(* are recursive operators over the AST that thread the generator and      *)
(* module state `g`; the lowered instruction lists are then walked along   *)
(* their control flow.                                                     *)
(***************************************************************************)
EXTENDS Integers, Sequences, FiniteSets, TLC

\* ------------------------------------------------------------------ bounds
\* nesting depth of the while/if contexts generated around a statement
MaxDepth == 2
\* largest index literal used in generated array accesses
MaxIdx == 1
\* number of walks of a loop's back edge a control-flow walk may take
MaxBack == 1

\* ------------------------------------------------------------------- types
IntTy == [tid |-> "int", dims |-> <<>>]
BoolTy == [tid |-> "bool", dims |-> <<>>]
VoidTy == [tid |-> "void", dims |-> <<>>]
PtrTy == [tid |-> "ptr", dims |-> <<>>]

\* ArrayType::get(elementType, numElements): a right-nested array type, kept
\* as the list of its dimensions, outermost first
ArrayType_get(elementType, numElements) ==
    [tid |-> "array",
     dims |-> IF elementType.tid = "array" THEN <<numElements>> \o elementType.dims
              ELSE <<numElements>>]

\* ------------------------------------------------------------------ values
\* a Value is identified by its kind and identity i; n is its source name
NullVal == [k |-> "null", i |-> 0, n |-> "", t |-> VoidTy]
ConstInt(v) == [k |-> "const", i |-> v, n |-> "", t |-> IntTy]
IsNull(v) == v.k = "null"

\* ------------------------------------------------------------ instructions
\* one record per Instruction object; id is the object's identity
Inst(id, op, sub, ops, t) ==
    [id |-> id, op |-> op, sub |-> sub, ops |-> ops, t |-> t,
     labelName |-> "", IRName |-> ""]

\* the Value an instruction defines (an Instruction is a Value)
ValOf(inst) == [k |-> "inst", i |-> inst.id, n |-> "", t |-> inst.t]

\* LabelInstruction(_func, _labelName): the constructor's body is commented
\* out and labelName is not in its initialiser list, so the name handed in is
\* dropped: labelName and IRName both stay empty
LabelInstruction(id, labelNameArg) ==
    Inst(id, "label", "", <<>>, VoidTy)

GotoInstruction(id, target) == Inst(id, "goto", "", <<target>>, VoidTy)
BcInstruction(id, cond, trueLabel, falseLabel) ==
    Inst(id, "bc", "", <<cond, trueLabel, falseLabel>>, VoidTy)
\* (a compare constructed with the type of its operands)
IcmpInstruction_int(id, left, right, cmpType) ==
    Inst(id, "icmp", cmpType, <<left, right>>, IntTy)
IcmpInstruction(id, left, right, cmpType) ==
    Inst(id, "icmp", cmpType, <<left, right>>, BoolTy)
BinaryInstruction(id, op, a, b, t) == Inst(id, op, "", <<a, b>>, t)
MoveInstruction(id, dst, src, mode) == Inst(id, "move", mode, <<dst, src>>, VoidTy)

\* LabelInstruction::getValueID: the name a branch prints for its target:
\* labelName, else IRName, else ".L0" (no name here ends in a colon, so
\* the stripping of a trailing colon changes nothing)
getValueID(inst) ==
    IF inst.labelName /= "" THEN inst.labelName
    ELSE IF inst.IRName /= "" THEN inst.IRName
    ELSE ".L0"

\* ---------------------------------------------------------------- the AST
\* node_type, sons, name, integer_val and needScope of an ast_node
Node(op, sons, name, val) ==
    [op |-> op, sons |-> sons, name |-> name, val |-> val, needScope |-> TRUE]
Par(op, idx) == [op |-> op, idx |-> idx]
NoPar == Par("none", 0)

\* the result of a handler: its bool result, node->blockInsts, node->val and
\* the generator/module state it leaves behind
\* (indices, base: the sons[1]->val of the array accesses nested in the node
\* and the val of their innermost base, which ir_array_access reads back)
Ok(insts, val, g) ==
    [ok |-> TRUE, insts |-> insts, val |-> val, g |-> g,
     indices |-> <<>>, base |-> val]
Fail(g) ==
    [ok |-> FALSE, insts |-> <<>>, val |-> NullVal, g |-> g,
     indices |-> <<>>, base |-> NullVal]

\* a fresh object identity
Bump(g) == [g EXCEPT !.nid = @ + 1]

\* decimal text of a small natural number (std::to_string / operator<<)
Digit(n) == CASE n = 0 -> "0" [] n = 1 -> "1" [] n = 2 -> "2" [] n = 3 -> "3"
              [] n = 4 -> "4" [] n = 5 -> "5" [] n = 6 -> "6" [] n = 7 -> "7"
              [] n = 8 -> "8" [] OTHER -> "9"
RECURSIVE to_string(_)
to_string(n) == IF n < 10 THEN Digit(n) ELSE to_string(n \div 10) \o Digit(n % 10)

\* the label name made from the static counter at c
LabelName(c) == "L" \o to_string(c)

\* generate_label(): a counter below 1 is set to 1; "L" followed by the
\* static counter, which it advances.  The counter starts at 1 and only
\* grows, so the k-th label made from counter c is LabelName(c + k - 1).
generate_label(g) ==
    [name |-> LabelName(IF g.label_counter < 1 THEN 1 ELSE g.label_counter),
     g |-> [g EXCEPT !.label_counter = IF @ < 1 THEN 2 ELSE @ + 1]]

\* ------------------------------------------------- module and scope stack
\* Module::enterScope / leaveScope: push and pop one scope
enterScope(g) == [g EXCEPT !.scopes = Append(@, <<>>)]
leaveScope(g) == [g EXCEPT !.scopes = SubSeq(@, 1, Len(@) - 1)]

\* Module::insertValueToCurrentScope
insertValueToCurrentScope(g, v) ==
    [g EXCEPT !.scopes[Len(g.scopes)] = Append(@, v)]

\* the binding of name in one scope (the latest inserted), or NullVal
FindInScope(scope, name) ==
    LET hits == {j \in 1..Len(scope) : scope[j].n = name}
    IN IF hits = {} THEN NullVal
       ELSE scope[CHOOSE j \in hits : \A h \in hits : h <= j]

\* Module::findVarValue: innermost scope first, the global scope last
RECURSIVE FindFrom(_, _, _)
FindFrom(scopes, d, name) ==
    IF d = 0 THEN NullVal
    ELSE LET v == FindInScope(scopes[d], name)
         IN IF IsNull(v) THEN FindFrom(scopes, d - 1, name) ELSE v
findVarValue(g, name) == FindFrom(g.scopes, Len(g.scopes), name)

\* Function::newLocalVarValue: a new local of the current function, not
\* entered in any scope
newLocalVarValue(g, type, name) ==
    LET v == [k |-> "local", i |-> g.nid, n |-> name, t |-> type]
    IN [val |-> v, g |-> [Bump(g) EXCEPT !.vars = Append(@, v)]]

\* Module::newVarValue: a local of the current function (a global outside
\* any function); a named one is entered in the current scope
newVarValue(g, type, name) ==
    LET r == IF g.curFunc /= "" THEN newLocalVarValue(g, type, name)
             ELSE [val |-> [k |-> "global", i |-> g.nid, n |-> name, t |-> type],
                   g |-> Bump(g)]
    IN [val |-> r.val,
        g |-> IF name /= "" THEN insertValueToCurrentScope(r.g, r.val) ELSE r.g]

\* Function::findParamOverride: the shadow local of a parameter, or NullVal
findParamOverride(g, name) == FindInScope(g.overrides, name)

\* Function::createParamOverride: the shadow local of a parameter, created
\* on first use
createParamOverride(g, name, type) ==
    LET old == findParamOverride(g, name)
        r == newLocalVarValue(g, type, name)
    IN IF ~IsNull(old) THEN [val |-> old, g |-> g]
       ELSE [val |-> r.val, g |-> [r.g EXCEPT !.overrides = Append(@, r.val)]]

\* ------------------------------------------------------------ the handlers
\* A handler is written as the chain of its parts: each part is the code
\* between two visits of sons and is handed what the parts before it made.
RECURSIVE ir_visit_ast_node(_, _, _)

\* the elements of a list
Range(q) == {q[j] : j \in 1..Len(q)}

\* where the instruction with identity id stands in a list (0: nowhere)
Pos(code, id) ==
    IF \E j \in 1..Len(code) : code[j].id = id
    THEN CHOOSE j \in 1..Len(code) : code[j].id = id ELSE 0

\* the identities of the instructions of a list
Ids(insts) == {insts[j].id : j \in 1..Len(insts)}

\* drop the last element (pop_back)
PopBack(q) == SubSeq(q, 1, Len(q) - 1)

\* a node whose value is the instruction it appends last
OkInst(insts, inst, g) == Ok(insts \o <<inst>>, ValOf(inst), g)

\* ir_leaf_node_uint: the literal's interned constant
ir_leaf_node_uint(node, g) == Ok(<<>>, ConstInt(node.val), g)

\* ulog keeps, in the order of lowering, the identifiers resolved (use: the
\* name, the Value the scopes bind it to and the Value node.val is set to)
\* and the assignments to a formal parameter (assign: the parameter and its
\* override local)
UseLogged(g, name, val) ==
    [g EXCEPT !.ulog = Append(@, [ev |-> "use", func |-> g.curFunc, name |-> name,
                                  bound |-> findVarValue(g, name), val |-> val])]
AssignLogged(g, formal, overrideVar) ==
    [g EXCEPT !.ulog = Append(@, [ev |-> "assign", func |-> g.curFunc, name |-> formal.n,
                                  bound |-> formal, val |-> overrideVar])]

\* (an identifier lookup that knows no parameter overrides)
ir_leaf_node_var_id_scopes(node, g) ==
    IF node.name = "" THEN Fail(g)
    ELSE IF IsNull(findVarValue(g, node.name)) THEN Fail(g)
    ELSE Ok(<<>>, findVarValue(g, node.name), UseLogged(g, node.name, findVarValue(g, node.name)))
\* ir_leaf_node_var_id: the parameter override if there is one, else the
\* binding found in the scopes; an unbound name is an error
ir_leaf_node_var_id(node, g) ==
    IF node.name = "" THEN Fail(g)
    ELSE IF g.curFunc /= "" /\ ~IsNull(findParamOverride(g, node.name))
    THEN Ok(<<>>, findParamOverride(g, node.name),
            UseLogged(g, node.name, findParamOverride(g, node.name)))
    ELSE IF IsNull(findVarValue(g, node.name)) THEN Fail(g)
    ELSE Ok(<<>>, findVarValue(g, node.name), UseLogged(g, node.name, findVarValue(g, node.name)))

\* ir_add, ir_sub, ir_mul, ir_div, ir_mod share one body: left operand,
\* right operand, then the i32 BinaryInstruction
ir_arith_emit(op, left, right) ==
    IF ~right.ok THEN Fail(right.g)
    ELSE OkInst(left.insts \o right.insts,
                BinaryInstruction(right.g.nid, op, left.val, right.val, IntTy),
                Bump(right.g))
ir_arith_right(node, op, left) ==
    IF ~left.ok THEN Fail(left.g)
    ELSE ir_arith_emit(op, left,
                       ir_visit_ast_node(node.sons[2], Par(node.op, 2), left.g))
ir_arith(node, g, op) ==
    ir_arith_right(node, op, ir_visit_ast_node(node.sons[1], Par(node.op, 1), g))

ir_add(node, g) == ir_arith(node, g, "add")
ir_sub(node, g) == ir_arith(node, g, "sub")
ir_mul(node, g) == ir_arith(node, g, "mul")
ir_div(node, g) == ir_arith(node, g, "div")
ir_mod(node, g) == ir_arith(node, g, "mod")

\* ir_lt ... ir_ne share one body: left, right, then the IcmpInstruction
ir_relational_emit(cmpType, left, right) ==
    IF ~right.ok THEN Fail(right.g)
    ELSE OkInst(left.insts \o right.insts,
                IcmpInstruction(right.g.nid, left.val, right.val, cmpType),
                Bump(right.g))
ir_relational_right(node, cmpType, left) ==
    IF ~left.ok THEN Fail(left.g)
    ELSE ir_relational_emit(cmpType, left,
                            ir_visit_ast_node(node.sons[2], Par(node.op, 2), left.g))
ir_relational(node, g, cmpType) ==
    ir_relational_right(node, cmpType,
                        ir_visit_ast_node(node.sons[1], Par(node.op, 1), g))

ir_lt(node, g) == ir_relational(node, g, "lt")
ir_le(node, g) == ir_relational(node, g, "le")
ir_gt(node, g) == ir_relational(node, g, "gt")
ir_ge(node, g) == ir_relational(node, g, "ge")
ir_eq(node, g) == ir_relational(node, g, "eq")
ir_ne(node, g) == ir_relational(node, g, "ne")

\* whether a Value is an IcmpInstruction (dynamic_cast<IcmpInstruction *>)
IsIcmp(v) == v.k = "inst" /\ v.t = BoolTy

\* nlog keeps, per lowered negation, the instructions the node made itself
\* before its last one (own), those of its operand (kids) and its last one
NegLogged(r, own, kids) ==
    [r EXCEPT !.g.nlog = Append(@, [func |-> r.g.curFunc, own |-> Ids(own),
                                    kids |-> Ids(kids), self |-> r.val.i])]

\* ir_neg, an i1 operand: it is first copied into an i32 temporary, and that
\* Move is appended before the operand's own instructions
ir_neg_widen(operand, temp) ==
    NegLogged(OkInst(<<MoveInstruction(temp.g.nid, temp.val, operand.val, "")>>
                     \o operand.insts,
                     BinaryInstruction(temp.g.nid + 1, "sub", ConstInt(0), temp.val, IntTy),
                     [temp.g EXCEPT !.nid = @ + 2]),
              <<MoveInstruction(temp.g.nid, temp.val, operand.val, "")>>, operand.insts)

\* ir_neg: 0 - operand
ir_neg_emit(operand) ==
    IF ~operand.ok THEN Fail(operand.g)
    ELSE IF IsIcmp(operand.val)
    THEN ir_neg_widen(operand, newVarValue(operand.g, IntTy, ""))
    ELSE NegLogged(OkInst(operand.insts,
                          BinaryInstruction(operand.g.nid, "sub", ConstInt(0),
                                            operand.val, IntTy),
                          Bump(operand.g)),
                   <<>>, operand.insts)
ir_neg(node, g) == ir_neg_emit(ir_visit_ast_node(node.sons[1], Par(node.op, 1), g))

\* ir_logical_not: icmp eq operand, 0 and a widening Move into an i32 temp
ir_logical_not_move(operand, result) ==
    Ok(operand.insts
       \o <<IcmpInstruction(operand.g.nid, operand.val, ConstInt(0), "eq"),
            MoveInstruction(result.g.nid, result.val,
                            ValOf(IcmpInstruction(operand.g.nid, operand.val,
                                                  ConstInt(0), "eq")), "")>>,
       result.val, Bump(result.g))
ir_logical_not_emit(operand) ==
    IF ~operand.ok THEN Fail(operand.g)
    ELSE ir_logical_not_move(operand, newVarValue(Bump(operand.g), IntTy, ""))
ir_logical_not(node, g) ==
    ir_logical_not_emit(ir_visit_ast_node(node.sons[1], Par(node.op, 1), g))

\* slog keeps, per lowered && or ||, the branch after the left operand, the
\* label that branch takes when the right operand is skipped, the end label
\* and the identities (lo up to hi) made while lowering the right operand
ShortLogged(r, kind, bcId, shortId, endId, lo, hi) ==
    [r EXCEPT !.g.slog = Append(@, [func |-> r.g.curFunc, kind |-> kind, bc |-> bcId,
                                    short |-> shortId, endl |-> endId,
                                    lo |-> lo, hi |-> hi])]

\* ir_logical_and: the result temp and the labels false, true, second
\* operand and end are made first (identities n .. n+3 after the temp);
\* then the left operand, its icmp ne 0 and the bc (second operand / false);
\* the right operand, its icmp ne 0 and bc (true / false); the true block,
\* the false block, the end label
ir_logical_and_emit(result, left, right) ==
    IF ~right.ok THEN Fail(right.g)
    ELSE LET n == result.g.nid
             c == result.g.label_counter
             m == left.g.nid
             n0 == right.g.nid
             falseLabelInst == LabelInstruction(n, LabelName(c))
             trueLabelInst == LabelInstruction(n + 1, LabelName(c + 1))
             secondOpLabelInst == LabelInstruction(n + 2, LabelName(c + 2))
             endLabelInst == LabelInstruction(n + 3, LabelName(c + 3))
             leftCmpInst == IcmpInstruction(m, left.val, ConstInt(0), "ne")
             rightCmpInst == IcmpInstruction(n0, right.val, ConstInt(0), "ne")
         IN ShortLogged(
              Ok(left.insts
                 \o <<leftCmpInst,
                      BcInstruction(m + 1, ValOf(leftCmpInst), ValOf(secondOpLabelInst),
                                    ValOf(falseLabelInst)),
                      secondOpLabelInst>>
                 \o right.insts
                 \o <<rightCmpInst,
                      BcInstruction(n0 + 1, ValOf(rightCmpInst), ValOf(trueLabelInst),
                                    ValOf(falseLabelInst)),
                      trueLabelInst,
                      MoveInstruction(n0 + 3, result.val, ConstInt(1), ""),
                      GotoInstruction(n0 + 5, ValOf(endLabelInst)),
                      falseLabelInst,
                      MoveInstruction(n0 + 2, result.val, ConstInt(0), ""),
                      GotoInstruction(n0 + 4, ValOf(endLabelInst)),
                      endLabelInst>>,
                 result.val, [right.g EXCEPT !.nid = n0 + 6]),
              "and", m + 1, n, n + 3, m + 2, n0)
ir_logical_and_right(node, result, left) ==
    IF ~left.ok THEN Fail(left.g)
    ELSE ir_logical_and_emit(result, left,
            ir_visit_ast_node(node.sons[2], Par(node.op, 2),
                              [left.g EXCEPT !.nid = @ + 2]))
ir_logical_and_left(node, result) ==
    ir_logical_and_right(node, result,
        ir_visit_ast_node(node.sons[1], Par(node.op, 1),
                          [result.g EXCEPT !.nid = @ + 4, !.label_counter = @ + 4]))
ir_logical_and(node, g) == ir_logical_and_left(node, newVarValue(g, IntTy, ""))

\* ir_logical_or: the left operand first; then the result temp, the names
\* of the true and end labels, the true label and the second-operand label
\* (identities n, n+1 after the temp), icmp ne 0 and the bc (true / second
\* operand); the right operand, its icmp ne 0, the false label, the end
\* label and the bc (true / false); the false block, the true block, the
\* end label
ir_logical_or_emit(left, result, right) ==
    IF ~right.ok THEN Fail(right.g)
    ELSE LET n == result.g.nid
             c == result.g.label_counter
             n0 == right.g.nid
             trueLabelInst == LabelInstruction(n, LabelName(c))
             secondOpLabelInst == LabelInstruction(n + 1, LabelName(c + 2))
             leftCmpInst == IcmpInstruction(n + 2, left.val, ConstInt(0), "ne")
             rightCmpInst == IcmpInstruction(n0, right.val, ConstInt(0), "ne")
             falseLabelInst == LabelInstruction(n0 + 1, LabelName(right.g.label_counter))
             endLabelInst == LabelInstruction(n0 + 2, LabelName(c + 1))
         IN ShortLogged(
              Ok(left.insts
                 \o <<leftCmpInst,
                      BcInstruction(n + 3, ValOf(leftCmpInst), ValOf(trueLabelInst),
                                    ValOf(secondOpLabelInst)),
                      secondOpLabelInst>>
                 \o right.insts
                 \o <<rightCmpInst,
                      BcInstruction(n0 + 3, ValOf(rightCmpInst), ValOf(trueLabelInst),
                                    ValOf(falseLabelInst)),
                      falseLabelInst,
                      MoveInstruction(n0 + 4, result.val, ConstInt(0), ""),
                      GotoInstruction(n0 + 5, ValOf(endLabelInst)),
                      trueLabelInst,
                      MoveInstruction(n0 + 6, result.val, ConstInt(1), ""),
                      GotoInstruction(n0 + 7, ValOf(endLabelInst)),
                      endLabelInst>>,
                 result.val,
                 [right.g EXCEPT !.nid = n0 + 8, !.label_counter = @ + 1]),
              "or", n + 3, n, n0 + 2, n + 4, n0)
ir_logical_or_right(node, left, result) ==
    ir_logical_or_emit(left, result,
        ir_visit_ast_node(node.sons[2], Par(node.op, 2),
                          [result.g EXCEPT !.nid = @ + 4, !.label_counter = @ + 3]))
ir_logical_or_result(node, left) ==
    IF ~left.ok THEN Fail(left.g)
    ELSE ir_logical_or_right(node, left, newVarValue(left.g, IntTy, ""))
ir_logical_or(node, g) ==
    ir_logical_or_result(node, ir_visit_ast_node(node.sons[1], Par(node.op, 1), g))

\* ---------------------------------------------------------- array accesses
\* coef of index i: the product of the dimensions after the i-th
RECURSIVE Coef(_, _)
Coef(dimensions, i) ==
    IF i >= Len(dimensions) THEN 1 ELSE dimensions[i + 1] * Coef(dimensions, i + 1)

\* the loop of computeArrayElementAddress over the indices from the i-th on:
\* term = indices[i] * coef, summed into linear_index; every instruction is
\* added to the function's InterCode as it is created
RECURSIVE LinearIndex(_, _, _, _, _)
LinearIndex(indices, dimensions, i, linear_index, g) ==
    IF i > Len(indices) THEN [val |-> linear_index, g |-> g]
    ELSE IF IsNull(linear_index)
    THEN LinearIndex(indices, dimensions, i + 1,
             ValOf(BinaryInstruction(g.nid, "mul", indices[i],
                                     ConstInt(Coef(dimensions, i)), IntTy)),
             [Bump(g) EXCEPT !.code = Append(@,
                 BinaryInstruction(g.nid, "mul", indices[i],
                                   ConstInt(Coef(dimensions, i)), IntTy))])
    ELSE LET term == BinaryInstruction(g.nid, "mul", indices[i],
                                       ConstInt(Coef(dimensions, i)), IntTy)
             sum == BinaryInstruction(g.nid + 1, "add", linear_index, ValOf(term), IntTy)
         IN LinearIndex(indices, dimensions, i + 1, ValOf(sum),
                        [g EXCEPT !.nid = @ + 2, !.code = @ \o <<term, sum>>])

\* the end of computeArrayElementAddress: byte_offset = linear_index * 4 and
\* element_addr = array + byte_offset, both added to the function's InterCode
ElementAddress(arrayValue, lin) ==
    LET byte_offset == BinaryInstruction(lin.g.nid, "mul", lin.val, ConstInt(4), IntTy)
        element_addr == BinaryInstruction(lin.g.nid + 1, "add", arrayValue,
                                          ValOf(byte_offset), PtrTy)
    IN [val |-> ValOf(element_addr),
        g |-> [lin.g EXCEPT !.nid = @ + 2, !.code = @ \o <<byte_offset, element_addr>>]]

\* the dimensions an array type holds, outermost first
Dimensions(type) == IF type.tid = "array" THEN type.dims ELSE <<>>

\* computeArrayElementAddress: base + 4 * (sum of index * coef).  Its two
\* branches (inLoopContext or not) have the same body.  No indices: the
\* array itself; more indices than dimensions: nullptr.
computeArrayElementAddress(arrayValue, indices, g) ==
    IF Len(indices) = 0 THEN [val |-> arrayValue, g |-> g]
    ELSE IF Len(indices) > Len(Dimensions(arrayValue.t)) THEN [val |-> NullVal, g |-> g]
    ELSE ElementAddress(arrayValue,
                        LinearIndex(indices, Dimensions(arrayValue.t), 1, NullVal, g))

\* the innermost while whose body the lowering is lexically in (tok 0: none)
LexTop(g) ==
    IF g.lex = <<>> THEN [tok |-> 0, start |-> 0, endl |-> 0] ELSE g.lex[Len(g.lex)]

\* alog keeps, per lowered array access: the array, its dimensions and the
\* index values, the address value, the identities (lo up to hi) of the
\* address instructions the access made, whether it is the left side of an
\* assignment, the value handed on, its load (0: none), and the loop context
AccessLogged(r, g, par, addr, lo, hi, load) ==
    [r EXCEPT !.g.alog = Append(@,
        [dims |-> Dimensions(r.base.t), idx |-> r.indices, base |-> r.base,
         addr |-> addr, lo |-> lo, hi |-> hi,
         lhs |-> (par.op = "assign" /\ par.idx = 1), val |-> r.val, load |-> load,
         inLoop |-> g.inLoopContext, tok |-> LexTop(g).tok, func |-> g.curFunc])]

\* the result of an array access node
Access(insts, val, g, indices, base) ==
    [ok |-> TRUE, insts |-> insts, val |-> val, g |-> g, indices |-> indices,
     base |-> base]

\* node->line_no: the compile units are written on one line
line_no(node) == 1

\* ir_array_access, tempVarName outside the in-loop path: the static counter
\* of that place and the line; the time as well when inLoopContext is set
tempVarName(node, g) ==
    "__temp_array_" \o to_string(g.tempVarCounter) \o "_" \o to_string(line_no(node))
    \o (IF g.inLoopContext THEN "_loop_" \o to_string(g.now) ELSE "")
\* ir_array_access, tempVarName of the in-loop path: std::time(nullptr), the
\* static counter of that place and the line
loopTempVarName(node, g) ==
    "__loop_" \o to_string(g.now) \o "_temp_array_" \o to_string(g.loopTempVarCounter)
    \o "_" \o to_string(line_no(node))
\* the temporary v was named from the counter at counter, in or outside the
\* in-loop path; the counter has moved on
TempNamed(g, v, node, loop) ==
    [g EXCEPT !.tempVarCounter = IF loop THEN @ ELSE @ + 1,
              !.loopTempVarCounter = IF loop THEN @ + 1 ELSE @,
              !.tlog = Append(@, [func |-> g.curFunc, val |-> v, loop |-> loop,
                                  inLoopContext |-> g.inLoopContext,
                                  counter |-> IF loop THEN g.loopTempVarCounter
                                              ELSE g.tempVarCounter])]

\* the end of the path below: the left side of an assignment gets the
\* address as its value, any other access loads into a fresh temporary
ArrayAccessLoad(node, par, base, index, g, element_addr) ==
    IF IsNull(element_addr.val) THEN Fail(element_addr.g)
    ELSE IF par.op = "assign" /\ par.idx = 1
    THEN AccessLogged(Access(base.insts \o index.insts, element_addr.val,
                             element_addr.g, base.indices \o <<index.val>>, base.base),
                      g, par, element_addr.val, g.nid, element_addr.g.nid, 0)
    ELSE LET tempVar == newLocalVarValue(element_addr.g, IntTy,
                                         tempVarName(node, element_addr.g))
         IN AccessLogged(
              Access(base.insts \o index.insts
                     \o <<MoveInstruction(tempVar.g.nid, tempVar.val, element_addr.val,
                                          "ARRAY_READ")>>,
                     tempVar.val, TempNamed(Bump(tempVar.g), tempVar.val, node, FALSE),
                     base.indices \o <<index.val>>, base.base),
              g, par, element_addr.val, g.nid, element_addr.g.nid, tempVar.g.nid)

\* ir_array_access, the path taken when inLoopContext is not set: the
\* indices of the nested accesses are collected and the address comes from
\* computeArrayElementAddress
ArrayAccessNoLoop(node, par, base, index, g) ==
    IF IsNull(index.val) \/ IsNull(base.base) THEN Fail(g)
    ELSE ArrayAccessLoad(node, par, base, index, g,
            computeArrayElementAddress(base.base, base.indices \o <<index.val>>, g))

\* the in-loop path replaced by the other one
ArrayAccessHoisted(node, par, base, index, g) ==
    ArrayAccessNoLoop(node, par, base, index, g)

\* ir_array_access, the path taken when inLoopContext is set: this level's
\* index * 4 added to the base operand's value, then a load into a fresh
\* temporary, all appended to the node's blockInsts
ArrayAccessInLoop(node, par, base, index, g) ==
    IF IsNull(base.val) \/ IsNull(index.val) THEN Fail(g)
    ELSE LET n == g.nid
             byte_offset == BinaryInstruction(n, "mul", index.val, ConstInt(4), IntTy)
             final_addr == BinaryInstruction(n + 1, "add", base.val,
                                             ValOf(byte_offset), PtrTy)
             tempVar == newLocalVarValue([g EXCEPT !.nid = n + 2], IntTy,
                                         loopTempVarName(node, g))
         IN AccessLogged(
              Access(base.insts \o index.insts
                     \o <<byte_offset, final_addr,
                          MoveInstruction(n + 3, tempVar.val, ValOf(final_addr),
                                          "ARRAY_READ")>>,
                     tempVar.val, TempNamed(Bump(tempVar.g), tempVar.val, node, TRUE),
                     base.indices \o <<index.val>>, base.base),
              g, par, ValOf(final_addr), n, n + 2, n + 3)

\* ir_array_access, after the base and the index are lowered
ir_array_access_emit(node, par, base, index) ==
    IF ~index.ok THEN Fail(index.g)
    ELSE IF index.g.inLoopContext
    THEN ArrayAccessInLoop(node, par, base, index, index.g)
    ELSE ArrayAccessNoLoop(node, par, base, index, index.g)
ir_array_access_index(node, par, base) ==
    IF ~base.ok THEN Fail(base.g)
    ELSE ir_array_access_emit(node, par, base,
            ir_visit_ast_node(node.sons[2], Par(node.op, 2), base.g))

\* the look-up ir_array_access makes for a base identifier before visiting
\* it: one bound neither among the function's variables nor in the scopes
\* is declared as a local int[4] and entered in the current scope
ImplicitArray(name, g) ==
    IF (\E j \in 1..Len(g.vars) : g.vars[j].n = name) \/ ~IsNull(findVarValue(g, name))
    THEN g
    ELSE LET temp_var == newLocalVarValue(g, ArrayType_get(IntTy, 4), name)
         IN insertValueToCurrentScope(temp_var.g, temp_var.val)

\* ir_array_access: two sons and a current function are needed; then the
\* base, then the index, then one of the two paths
ir_array_access(node, par, g) ==
    IF Len(node.sons) /= 2 \/ g.curFunc = "" THEN Fail(g)
    ELSE IF node.sons[1].op = "var" /\ node.sons[1].name = "" THEN Fail(g)
    ELSE ir_array_access_index(node, par,
            ir_visit_ast_node(node.sons[1], Par(node.op, 1),
                              IF node.sons[1].op = "var"
                              THEN ImplicitArray(node.sons[1].name, g) ELSE g))

\* -------------------------------------------------------------- statements
\* ir_assign, after both sides are lowered: the Move; the store through an
\* array element address is an ARRAY_WRITE Move
ir_assign_emit(node, right, initInsts, left) ==
    IF ~left.ok THEN Fail(left.g)
    ELSE IF IsNull(left.val) \/ IsNull(right.val) THEN Fail(left.g)
    ELSE OkInst(initInsts \o right.insts \o left.insts,
                MoveInstruction(left.g.nid, left.val, right.val,
                                IF node.sons[1].op = "array_access"
                                THEN "ARRAY_WRITE" ELSE ""),
                Bump(left.g))
ir_assign_left(node, right, override) ==
    ir_assign_emit(node, right, override.insts,
                   ir_visit_ast_node(node.sons[1], Par(node.op, 1), override.g))

\* the Move that initialises the override local of an assigned parameter
ParamOverrideInit(val, overrideVar) ==
    [insts |-> <<MoveInstruction(overrideVar.g.nid, overrideVar.val, val, "")>>,
     g |-> AssignLogged(Bump(overrideVar.g), val, overrideVar.val)]

\* ir_assign, between the two sides: an assigned formal parameter gets its
\* override local and the Move that initialises it
AssignOverride(node, g, val) ==
    IF node.sons[1].op = "var" /\ g.curFunc /= "" /\ val.k = "param"
    THEN ParamOverrideInit(val, createParamOverride(g, val.n, val.t))
    ELSE [insts |-> <<>>, g |-> g]
ir_assign_right(node, right) ==
    IF ~right.ok THEN Fail(right.g)
    ELSE ir_assign_left(node, right,
            AssignOverride(node, right.g, findVarValue(right.g, node.sons[1].name)))

\* ir_assign: the right side first, then the left side, then the Move
ir_assign(node, g) ==
    ir_assign_right(node, ir_visit_ast_node(node.sons[2], Par(node.op, 2), g))

\* ir_return: the expression, the Move into the return slot (left out for a
\* literal 0 when the slot is already initialised), the goto to the exit
\* label.  rlog keeps, per return statement lowered, its function, the
\* value of its expression (NullVal without one), the first identity free
\* when its lowering began (lo) and the identity of its goto
ir_return_goto(lo, insts, val, g) ==
    Ok(insts \o <<GotoInstruction(g.nid, g.exitLabel)>>, val,
       [Bump(g) EXCEPT !.rlog = Append(@, [func |-> g.curFunc, val |-> val, lo |-> lo,
                                           goto |-> g.nid])])
\* (a return that never writes the return slot)
ir_return_value_nomove(lo, right) ==
    IF ~right.ok THEN Fail(right.g) ELSE ir_return_goto(lo, right.insts, right.val, right.g)
ir_return_value(lo, right) ==
    IF ~right.ok THEN Fail(right.g)
    ELSE IF right.val = ConstInt(0) /\ right.g.retInit
    THEN ir_return_goto(lo, right.insts, right.val, right.g)
    ELSE ir_return_goto(lo,
            right.insts \o <<MoveInstruction(right.g.nid, right.g.retVal, right.val, "")>>,
            right.val, Bump(right.g))
ir_return(node, g) ==
    IF node.sons = <<>> THEN ir_return_goto(g.nid, <<>>, NullVal, g)
    ELSE ir_return_value(g.nid, ir_visit_ast_node(node.sons[1], Par(node.op, 1), g))

\* the loop of ir_block over the sons from the i-th on; a failing son
\* returns at once
RECURSIVE ir_block_sons(_, _, _, _)
ir_block_next(node, i, insts, temp) ==
    IF ~temp.ok THEN Fail(temp.g)
    ELSE ir_block_sons(node, i + 1, insts \o temp.insts, temp.g)
ir_block_sons(node, i, insts, g) ==
    IF i > Len(node.sons) THEN Ok(insts, NullVal, g)
    ELSE ir_block_next(node, i, insts,
                       ir_visit_ast_node(node.sons[i], Par(node.op, i), g))

\* ir_block: a scope around the sons if needScope; after a failing son the
\* scope stays entered
ir_block_leave(node, r) ==
    IF ~r.ok THEN r
    ELSE [r EXCEPT !.g = IF node.needScope THEN leaveScope(r.g) ELSE r.g]
ir_block(node, g) ==
    ir_block_leave(node,
        ir_block_sons(node, 1, <<>>, IF node.needScope THEN enterScope(g) ELSE g))

\* ir_if: condition, bc (then / end), then label, then branch, end label
ir_if_emit(condition, thenStmt) ==
    IF ~thenStmt.ok THEN Fail(thenStmt.g)
    ELSE LET n == condition.g.nid
             c == condition.g.label_counter
             thenLabelInst == LabelInstruction(n, LabelName(c))
             endLabelInst == LabelInstruction(n + 1, LabelName(c + 1))
         IN Ok(condition.insts
               \o <<BcInstruction(n + 2, condition.val, ValOf(thenLabelInst),
                                  ValOf(endLabelInst)),
                    thenLabelInst>>
               \o thenStmt.insts \o <<endLabelInst>>, NullVal, thenStmt.g)
ir_if_then(node, condition) ==
    IF ~condition.ok THEN Fail(condition.g)
    ELSE ir_if_emit(condition,
            ir_visit_ast_node(node.sons[2], Par(node.op, 2),
                [condition.g EXCEPT !.nid = @ + 3, !.label_counter = @ + 2]))
ir_if(node, g) ==
    ir_if_then(node, ir_visit_ast_node(node.sons[1], Par(node.op, 1), g))

\* ir_if_else: condition, bc (then / else), then label, then branch, goto
\* end, else label, else branch, end label
ir_if_else_emit(condition, thenStmt, elseStmt) ==
    IF ~elseStmt.ok THEN Fail(elseStmt.g)
    ELSE LET n == condition.g.nid
             c == condition.g.label_counter
             thenLabelInst == LabelInstruction(n, LabelName(c))
             elseLabelInst == LabelInstruction(n + 1, LabelName(c + 1))
             endLabelInst == LabelInstruction(n + 2, LabelName(c + 2))
         IN Ok(condition.insts
               \o <<BcInstruction(n + 3, condition.val, ValOf(thenLabelInst),
                                  ValOf(elseLabelInst)),
                    thenLabelInst>>
               \o thenStmt.insts
               \o <<GotoInstruction(thenStmt.g.nid, ValOf(endLabelInst)), elseLabelInst>>
               \o elseStmt.insts \o <<endLabelInst>>, NullVal, elseStmt.g)
ir_if_else_else(node, condition, thenStmt) ==
    IF ~thenStmt.ok THEN Fail(thenStmt.g)
    ELSE ir_if_else_emit(condition, thenStmt,
            ir_visit_ast_node(node.sons[3], Par(node.op, 3), Bump(thenStmt.g)))
ir_if_else_then(node, condition) ==
    IF ~condition.ok THEN Fail(condition.g)
    ELSE ir_if_else_else(node, condition,
            ir_visit_ast_node(node.sons[2], Par(node.op, 2),
                [condition.g EXCEPT !.nid = @ + 4, !.label_counter = @ + 3]))
ir_if_else(node, g) ==
    ir_if_else_then(node, ir_visit_ast_node(node.sons[1], Par(node.op, 1), g))

\* ir_while without the end label in the node's list
WhileInstsNoEnd(startLabelInst, condInsts, bcInst, bodyLabelInst, bodyInsts, gotoStartInst, endLabelInst) ==
    <<startLabelInst>> \o condInsts \o <<bcInst, bodyLabelInst>> \o bodyInsts
    \o <<gotoStartInst>>

\* the blockInsts of a while node, in the order ir_while adds them
WhileInsts(startLabelInst, condInsts, bcInst, bodyLabelInst, bodyInsts, gotoStartInst, endLabelInst) ==
    <<startLabelInst>> \o condInsts \o <<bcInst, bodyLabelInst>> \o bodyInsts
    \o <<gotoStartInst, endLabelInst>>

\* leaving a loop with the current label instructions left as the loop set them
WhileLeaveKeep(gb, saved) ==
    [gb EXCEPT !.whileLabels = PopBack(@),
               !.whileLabelInsts = PopBack(@),
               !.currentWhileStartLabel = saved.currentWhileStartLabel,
               !.currentWhileEndLabel = saved.currentWhileEndLabel]

\* the end of ir_while: both stacks popped, the four saved members restored
WhileLeave(gb, saved) ==
    [gb EXCEPT !.whileLabels = PopBack(@),
               !.whileLabelInsts = PopBack(@),
               !.currentWhileStartLabel = saved.currentWhileStartLabel,
               !.currentWhileEndLabel = saved.currentWhileEndLabel,
               !.currentWhileStartLabelInst = saved.currentWhileStartLabelInst,
               !.currentWhileEndLabelInst = saved.currentWhileEndLabelInst]

\* the error returns of ir_while: the label stack popped and the two label
\* names restored, the label instructions left as they are
WhileAbort(gx, saved, inLoop) ==
    [gx EXCEPT !.whileLabels = PopBack(@),
               !.currentWhileStartLabel = saved.currentWhileStartLabel,
               !.currentWhileEndLabel = saved.currentWhileEndLabel,
               !.inLoopContext = inLoop]

\* the start of ir_while: three labels generated (start, body, end), the
\* start label instruction created, the names pushed and made current
WhileEnter(g) ==
    [g EXCEPT !.label_counter = @ + 3,
              !.nid = @ + 1,
              !.whileLabels = Append(@, <<LabelName(g.label_counter),
                                          LabelName(g.label_counter + 2)>>),
              !.currentWhileStartLabel = LabelName(g.label_counter),
              !.currentWhileEndLabel = LabelName(g.label_counter + 2),
              !.currentWhileStartLabelInst =
                  ValOf(LabelInstruction(g.nid, LabelName(g.label_counter)))]

\* ir_while after the condition: body label, end label and bc created, the
\* end label instruction made current, inLoopContext set for the body
WhileBodyEnter(g, gc) ==
    [gc EXCEPT !.nid = @ + 3,
               !.currentWhileEndLabelInst =
                   ValOf(LabelInstruction(gc.nid + 1, LabelName(g.label_counter + 2))),
               !.whileLabelInsts = Append(@, <<g.nid, gc.nid + 1>>),
               !.inLoopContext = TRUE,
               !.lex = Append(@, [tok |-> g.nid, start |-> g.nid, endl |-> gc.nid + 1])]

\* the loop state of the lowering: the two stacks, the current labels and
\* label instructions, the inside-loop-body flag
LoopState(g) ==
    [whileLabels |-> g.whileLabels, whileLabelInsts |-> g.whileLabelInsts,
     currentWhileStartLabel |-> g.currentWhileStartLabel,
     currentWhileEndLabel |-> g.currentWhileEndLabel,
     currentWhileStartLabelInst |-> g.currentWhileStartLabelInst,
     currentWhileEndLabelInst |-> g.currentWhileEndLabelInst,
     inLoopContext |-> g.inLoopContext]

\* (an end of ir_while that leaves inLoopContext as the body had it)
WhileDoneInLoop(gb, saved, gc) == WhileLeave(gb, saved)
\* ir_while after the body, on the success path: inLoopContext gets the value
\* saved before the body, the stacks are popped and the saved members restored
WhileDone(gb, saved, gc) ==
    [WhileLeave(gb, saved) EXCEPT !.inLoopContext = gc.inLoopContext]

\* wlog keeps, per lowered while: the identities of its start, body and end
\* label instructions and of its closing goto, and the loop state when its
\* lowering began and when it returned
WhileEntry(g, gc, gb) ==
    [func |-> g.curFunc, tok |-> g.nid, start |-> g.nid, body |-> gc.nid,
     endl |-> gc.nid + 1, back |-> gb.nid,
     before |-> LoopState(g), after |-> LoopState(WhileDone(gb, g, gc))]

\* ir_while, after the body: goto start, then the node's list
ir_while_emit(g, condition, body) ==
    IF ~body.ok THEN Fail(WhileAbort(body.g, g, condition.g.inLoopContext))
    ELSE LET c == g.label_counter
             gc == condition.g
             startLabelInst == LabelInstruction(g.nid, LabelName(c))
             bodyLabelInst == LabelInstruction(gc.nid, LabelName(c + 1))
             endLabelInst == LabelInstruction(gc.nid + 1, LabelName(c + 2))
         IN Ok(WhileInsts(startLabelInst, condition.insts,
                          BcInstruction(gc.nid + 2, condition.val, ValOf(bodyLabelInst),
                                        ValOf(endLabelInst)),
                          bodyLabelInst, body.insts,
                          GotoInstruction(body.g.nid, ValOf(startLabelInst)),
                          endLabelInst),
               NullVal,
               [WhileDone(body.g, g, gc) EXCEPT
                  !.nid = @ + 1,
                  !.lex = PopBack(@),
                  !.wlog = Append(@, WhileEntry(g, gc, body.g))])
ir_while_body(node, g, condition) ==
    IF ~condition.ok
    THEN Fail(WhileAbort(condition.g, g, condition.g.inLoopContext))
    ELSE ir_while_emit(g, condition,
            ir_visit_ast_node(node.sons[2], Par(node.op, 2),
                              WhileBodyEnter(g, condition.g)))

\* ir_while: start label, condition, bc (body / end), body label, body,
\* goto start, end label.  The current-loop members are saved on entry and
\* restored on the success path; lex and wlog record the loop lexically.
ir_while(node, g) ==
    IF g.curFunc = "" THEN Fail(g)
    ELSE ir_while_body(node, g,
            ir_visit_ast_node(node.sons[1], Par(node.op, 1), WhileEnter(g)))

\* blog keeps, per lowered break or continue: the goto it made (0: none),
\* the label that goto names and the loop lexically around it
JumpLogged(r, g, kind, target) ==
    [r EXCEPT !.g.blog = Append(@,
        [kind |-> kind, ok |-> r.ok, goto |-> IF r.ok THEN g.nid ELSE 0,
         target |-> IF r.ok THEN target.i ELSE 0, lex |-> LexTop(g),
         func |-> g.curFunc])]

\* a guard that lets every break and continue through
OutsideLoopNever(g, labelInst) == FALSE

\* the guard of ir_break and ir_continue: no loop on the stack, or no label
\* instruction of the current loop
OutsideLoop(g, labelInst) == g.whileLabels = <<>> \/ IsNull(labelInst)

\* ir_break: outside any loop an error; else one goto to the current end label
ir_break(node, g) ==
    IF g.curFunc = "" THEN Fail(g)
    ELSE IF OutsideLoop(g, g.currentWhileEndLabelInst)
    THEN JumpLogged(Fail(g), g, "break", NullVal)
    ELSE JumpLogged(Ok(<<GotoInstruction(g.nid, g.currentWhileEndLabelInst)>>, NullVal,
                       Bump(g)),
                    g, "break", g.currentWhileEndLabelInst)

\* ir_continue: outside any loop an error; else one goto to the current
\* start label
ir_continue(node, g) ==
    IF g.curFunc = "" THEN Fail(g)
    ELSE IF OutsideLoop(g, g.currentWhileStartLabelInst)
    THEN JumpLogged(Fail(g), g, "continue", NullVal)
    ELSE JumpLogged(Ok(<<GotoInstruction(g.nid, g.currentWhileStartLabelInst)>>, NullVal,
                       Bump(g)),
                    g, "continue", g.currentWhileStartLabelInst)

\* ------------------------------------------------------------ declarations
\* ir_array_def: the array type of a definition node, whose first son is
\* the element type (a nested definition or the leaf type) and whose second
\* son is the size literal
RECURSIVE ir_array_def(_)
ir_array_def(node) ==
    ArrayType_get(IF node.sons[1].op = "array_def" THEN ir_array_def(node.sons[1])
                  ELSE IntTy,
                  node.sons[2].val)

\* the variable a declaration has made
Declared(created) == Ok(<<>>, created.val, created.g)

\* ir_variable_declare, for a name that is not an array just made: one that
\* findVarValue already resolves, in whatever scope, is handed back as the
\* declared variable; else a new variable is made in the current scope
ir_variable_declare_find(g, varName, existingVar) ==
    IF ~IsNull(existingVar) THEN Ok(<<>>, existingVar, g)
    ELSE Declared(newVarValue(g, IntTy, varName))

\* ir_variable_declare: an array is created at once, then the look-up
ir_variable_declare_array(g, varName) ==
    ir_variable_declare_find(g, varName, findVarValue(g, varName))
ir_variable_declare(node, g) ==
    IF Len(node.sons) < 2 THEN Fail(g)
    ELSE IF node.sons[2].name = "" THEN Fail(g)
    ELSE ir_variable_declare_array(
            IF node.sons[2].op = "array_def"
            THEN newVarValue(g, ir_array_def(node.sons[2]), node.sons[2].name).g
            ELSE g,
            node.sons[2].name)

\* dlog keeps, per variable declaration lowered: what the name was bound to
\* before (outer), whether the current scope held a binding of it (here), the
\* variable the declaration yields (val) and what the name resolves to
\* afterwards (bound)
DeclareLogged(node, g, r) ==
    IF ~r.ok THEN r
    ELSE [r EXCEPT !.g.dlog = Append(@,
            [func |-> g.curFunc, name |-> node.sons[2].name,
             outer |-> findVarValue(g, node.sons[2].name),
             here |-> ~IsNull(FindInScope(g.scopes[Len(g.scopes)], node.sons[2].name)),
             val |-> r.val, bound |-> findVarValue(r.g, node.sons[2].name)])]

\* ir_declare_statment: first the declared variables, in order, then the
\* initialising assignments; any other son is an error
RECURSIVE ir_declare_vars(_, _, _, _), ir_declare_inits(_, _, _, _)
ir_declare_vars_next(node, i, insts, r) ==
    IF ~r.ok THEN Fail(r.g) ELSE ir_declare_vars(node, i + 1, insts \o r.insts, r.g)
ir_declare_vars(node, i, insts, g) ==
    IF i > Len(node.sons) THEN Ok(insts, NullVal, g)
    ELSE IF node.sons[i].op /= "var_decl" THEN ir_declare_vars(node, i + 1, insts, g)
    ELSE ir_declare_vars_next(node, i, insts,
                              DeclareLogged(node.sons[i], g,
                                            ir_variable_declare(node.sons[i], g)))
ir_declare_inits_next(node, i, insts, r) ==
    IF ~r.ok THEN Fail(r.g) ELSE ir_declare_inits(node, i + 1, insts \o r.insts, r.g)
ir_declare_inits(node, i, insts, g) ==
    IF i > Len(node.sons) THEN Ok(insts, NullVal, g)
    ELSE IF node.sons[i].op = "var_decl" THEN ir_declare_inits(node, i + 1, insts, g)
    ELSE IF node.sons[i].op /= "assign" THEN Fail(g)
    ELSE ir_declare_inits_next(node, i, insts, ir_assign(node.sons[i], g))
ir_declare_statment_inits(node, vars) ==
    IF ~vars.ok THEN vars ELSE ir_declare_inits(node, 1, vars.insts, vars.g)
ir_declare_statment(node, g) ==
    ir_declare_statment_inits(node, ir_declare_vars(node, 1, <<>>, g))

\* ------------------------------------------------------------- functions
\* a formal parameter; an array one is degraded to Array{elem, 0}
FormalParam(p, g) ==
    [k |-> "param", i |-> g.nid, n |-> p.name,
     t |-> IF p.val = 0 THEN IntTy ELSE ArrayType_get(IntTy, 0)]

\* ir_function_formal_params: each parameter is made and entered in the
\* function's scope
RECURSIVE ir_function_formal_params(_, _, _)
ir_function_formal_params(node, i, g) ==
    IF i > Len(node.sons) THEN Ok(<<>>, NullVal, g)
    ELSE ir_function_formal_params(node, i + 1,
            insertValueToCurrentScope(
                [Bump(g) EXCEPT !.params = Append(@, FormalParam(node.sons[i], g))],
                FormalParam(node.sons[i], g)))

\* the Function object of the function being lowered, as the module keeps it
FunctionRecord(g, done) ==
    [name |-> g.curFunc, code |-> g.code, vars |-> g.vars, params |-> g.params,
     overrides |-> g.overrides, exitLabel |-> g.exitLabel, retVal |-> g.retVal,
     blockStart |-> g.blockStart, done |-> done]

\* the start of ir_function_define: the function is made current and its
\* scope entered; the entry label and Entry go to the function's list at
\* once; the exit label instruction is made and kept
FunctionOpen(g, name) ==
    [g EXCEPT !.curFunc = name, !.vars = <<>>, !.params = <<>>, !.overrides = <<>>,
              !.retInit = FALSE, !.retVal = NullVal, !.blockStart = 0,
              !.scopes = Append(@, <<>>),
              !.code = <<LabelInstruction(g.nid, generate_label(g).name),
                         Inst(g.nid + 1, "entry", "", <<>>, VoidTy)>>,
              !.exitLabel = ValOf(LabelInstruction(g.nid + 2,
                                      generate_label(generate_label(g).g).name)),
              !.label_counter = generate_label(generate_label(g).g).g.label_counter,
              !.nid = @ + 3]

\* (a return slot that is marked initialised without the Move)
ReturnSlotNoInit(retValue) ==
    [insts |-> <<>>,
     g |-> [Bump(retValue.g) EXCEPT !.retVal = retValue.val, !.retInit = TRUE]]
\* the return slot of a function that is not void, and the Move that
\* initialises it to 0, which opens the node's blockInsts
ReturnSlotInit(retValue) ==
    [insts |-> <<MoveInstruction(retValue.g.nid, retValue.val, ConstInt(0), "")>>,
     g |-> [Bump(retValue.g) EXCEPT !.retVal = retValue.val, !.retInit = TRUE]]
ReturnSlot(node, g) ==
    IF node.sons[1].name = "void" THEN [insts |-> <<>>, g |-> g]
    ELSE ReturnSlotInit(newVarValue(g, IntTy, ""))

\* the end of ir_function_define: the node's blockInsts, the exit label and
\* Exit are appended to the function's list
FunctionClose(gb, blockInsts) ==
    [Bump(gb) EXCEPT !.blockStart = Len(gb.code),
                     !.code = @ \o blockInsts
                              \o <<LabelInstruction(gb.exitLabel.i, ""),
                                   Inst(gb.nid, "exit", "", <<gb.retVal>>, VoidTy)>>]

\* the function is closed: kept by the module, no function current, its
\* scope left
FunctionDone(g) ==
    [g EXCEPT !.funcs = Append(@, FunctionRecord(g, TRUE)),
              !.curFunc = "",
              !.scopes = PopBack(@)]

\* ir_function_define, after the body: a failing body returns at once, the
\* function still current and its scope still entered
ir_function_define_emit(slot, block) ==
    IF ~block.ok
    THEN Fail([block.g EXCEPT !.funcs = Append(@, FunctionRecord(block.g, FALSE))])
    ELSE Ok(slot.insts \o block.insts, NullVal,
            FunctionDone(FunctionClose(block.g, slot.insts \o block.insts)))
ir_function_define_body(node, slot) ==
    ir_function_define_emit(slot,
        ir_block([node.sons[4] EXCEPT !.needScope = FALSE], slot.g))

\* ir_function_define: refused inside a function and for a taken name; then
\* the parameters, the return slot, the body block without a scope of its own
ir_function_define(node, g) ==
    IF g.curFunc /= "" THEN Fail(g)
    ELSE IF \E j \in 1..Len(g.funcs) : g.funcs[j].name = node.sons[2].name THEN Fail(g)
    ELSE ir_function_define_body(node,
            ReturnSlot(node,
                ir_function_formal_params(node.sons[3], 1,
                                          FunctionOpen(g, node.sons[2].name)).g))

\* ir_visit_ast_node: the handler registered for the node type; a node type
\* without handler goes to ir_default, which accepts it and emits nothing
ir_visit_ast_node(node, par, g) ==
    CASE node.op = "uint" -> ir_leaf_node_uint(node, g)
      [] node.op = "var" -> ir_leaf_node_var_id(node, g)
      [] node.op = "add" -> ir_add(node, g)
      [] node.op = "sub" -> ir_sub(node, g)
      [] node.op = "mul" -> ir_mul(node, g)
      [] node.op = "div" -> ir_div(node, g)
      [] node.op = "mod" -> ir_mod(node, g)
      [] node.op = "neg" -> ir_neg(node, g)
      [] node.op = "lt" -> ir_lt(node, g)
      [] node.op = "le" -> ir_le(node, g)
      [] node.op = "gt" -> ir_gt(node, g)
      [] node.op = "ge" -> ir_ge(node, g)
      [] node.op = "eq" -> ir_eq(node, g)
      [] node.op = "ne" -> ir_ne(node, g)
      [] node.op = "and" -> ir_logical_and(node, g)
      [] node.op = "or" -> ir_logical_or(node, g)
      [] node.op = "not" -> ir_logical_not(node, g)
      [] node.op = "if" -> ir_if(node, g)
      [] node.op = "if_else" -> ir_if_else(node, g)
      [] node.op = "while" -> ir_while(node, g)
      [] node.op = "break" -> ir_break(node, g)
      [] node.op = "continue" -> ir_continue(node, g)
      [] node.op = "array_access" -> ir_array_access(node, par, g)
      [] node.op = "assign" -> ir_assign(node, g)
      [] node.op = "return" -> ir_return(node, g)
      [] node.op = "func_def" -> ir_function_define(node, g)
      [] node.op = "decl_stmt" -> ir_declare_statment(node, g)
      [] node.op = "var_decl" -> ir_variable_declare(node, g)
      [] node.op = "block" -> ir_block(node, g)
      [] OTHER -> Ok(<<>>, NullVal, g)

\* the generator and the module after construction: the label counter at
\* 1, no current function, the global scope, no loop
InitGen ==
    [nid |-> 1, label_counter |-> 1, scopes |-> <<<<>>>>, curFunc |-> "",
     code |-> <<>>, vars |-> <<>>, params |-> <<>>, overrides |-> <<>>,
     exitLabel |-> NullVal, retVal |-> NullVal, retInit |-> FALSE, blockStart |-> 0,
     funcs |-> <<>>,
     whileLabels |-> <<>>, whileLabelInsts |-> <<>>,
     currentWhileStartLabel |-> "", currentWhileEndLabel |-> "",
     currentWhileStartLabelInst |-> NullVal, currentWhileEndLabelInst |-> NullVal,
     inLoopContext |-> FALSE,
     lex |-> <<>>, wlog |-> <<>>, blog |-> <<>>, alog |-> <<>>, slog |-> <<>>,
     nlog |-> <<>>, tlog |-> <<>>, dlog |-> <<>>, now |-> 1, tempVarCounter |-> 0,
     loopTempVarCounter |-> 0, ulog |-> <<>>, rlog |-> <<>>]

\* ---------------------------------------------------------------- programs
\* The compile units lowered: the globals  int a[D1][D2]; int b[D1];  then
\* optionally a function g with a loop, then  int f(int p) { int x; ... }
\* whose body holds one statement of interest inside up to MaxDepth
\* enclosing while / if / if-else statements.
D1 == 2
D2 == 3

U(v) == Node("uint", <<>>, "", v)
V(n) == Node("var", <<>>, n, 0)
Un(op, e) == Node(op, <<e>>, "", 0)
Bin(op, l, r) == Node(op, <<l, r>>, "", 0)
Block(stmts) == Node("block", stmts, "", 0)
TypeInt == Node("type", <<>>, "int", 0)
Decl(declarator) == Node("decl_stmt", <<Node("var_decl", <<TypeInt, declarator>>, "", 0)>>, "", 0)
ArrayDef(elem, size, name) == Node("array_def", <<elem, U(size)>>, name, 0)
While(c, body) == Node("while", <<c, body>>, "", 0)
If(c, t) == Node("if", <<c, t>>, "", 0)
IfElse(c, t, e) == Node("if_else", <<c, t, e>>, "", 0)
Break == Node("break", <<>>, "", 0)
Continue == Node("continue", <<>>, "", 0)
Return(e) == Node("return", <<e>>, "", 0)
FuncDef(name, params, body) ==
    Node("func_def", <<TypeInt, V(name), Node("params", params, "", 0), body>>, "", 0)
Param(name, isArray) == Node("param", <<>>, name, IF isArray THEN 1 ELSE 0)

Indexes == 0..MaxIdx
Accesses ==
    {Bin("array_access", V("b"), U(i)) : i \in Indexes}
    \cup {Bin("array_access", Bin("array_access", V("a"), U(i)), U(j)) :
            i \in Indexes, j \in Indexes}
Operands == Accesses \cup {V("x")}
Logical ==
    {Bin("and", V("x"), e) : e \in Operands} \cup {Bin("or", V("x"), e) : e \in Operands}
Rhs ==
    {U(1), V("x"), V("p"), Bin("add", V("x"), U(1)),
     Un("neg", V("x")), Un("not", V("x")), Un("neg", Bin("lt", V("x"), U(1)))}
    \cup Accesses \cup Logical
Focal ==
    {Bin("assign", V("x"), e) : e \in Rhs}
    \cup {Bin("assign", acc, U(1)) : acc \in Accesses}
    \cup {Bin("assign", V("p"), V("x")), Break, Continue, Return(V("x")), Return(U(0))}
\* the statements of interest that evaluate a && or a ||
FocalLogical == {Bin("assign", V("x"), e) : e \in Logical}

\* one enclosing statement around s
Wrap(kind, s) ==
    CASE kind = "while" -> While(V("x"), Block(<<s>>))
      [] kind = "after_loop" ->
            While(V("x"), Block(<<While(V("x"), Block(<<Bin("assign", V("x"), U(0))>>)), s>>))
      [] kind = "if" -> If(V("x"), Block(<<s>>))
      [] OTHER -> IfElse(V("x"), Block(<<s>>), Block(<<Bin("assign", V("x"), U(1))>>))
Kinds == {"while", "after_loop", "if", "if_else"}

RECURSIVE Nested(_, _)
Nested(d, focal) ==
    IF d = 0 THEN focal
    ELSE Nested(d - 1, focal) \cup {Wrap(k, s) : k \in Kinds, s \in Nested(d - 1, focal)}

ClosedLoop == While(V("x"), Block(<<Bin("assign", V("x"), U(0))>>))
Body(pre, s) == Block(<<Decl(V("x"))>> \o pre \o <<s, Return(V("x"))>>)
Globals ==
    <<Decl(ArrayDef(ArrayDef(TypeInt, D2, "a"), D1, "a")), Decl(ArrayDef(TypeInt, D1, "b"))>>
LoopFunction ==
    FuncDef("g", <<>>, Block(<<Decl(V("x")), While(V("x"), Block(<<Continue>>)),
                               Return(V("x"))>>))
Program(first, body) == Globals \o first \o <<FuncDef("f", <<Param("p", FALSE)>>, body)>>

\* A second family of compile units: the globals, then  int f(int p)  or
\* void f(int p)  whose body is  int x;  followed by up to MaxStmts of the
\* statements below, then optionally the function  int h() { return 0; }.
\* u is declared nowhere.
MaxStmts == 2
TypeVoid == Node("type", <<>>, "void", 0)
FuncDefOf(type, name, params, body) ==
    Node("func_def", <<type, V(name), Node("params", params, "", 0), body>>, "", 0)
ReturnVoid == Node("return", <<>>, "", 0)
Stmts ==
    {Bin("assign", V("x"), V("p")), Bin("assign", V("p"), V("x")),
     Bin("assign", V("p"), Bin("add", V("p"), U(1))),
     Return(V("x")), Return(U(0)), ReturnVoid, Break,
     Bin("assign", V("x"), V("u")),
     Bin("assign", V("x"), Bin("array_access", V("u"), U(0)))}
StmtLists == UNION {[1..n -> Stmts] : n \in 1..MaxStmts}
NextFunction == FuncDef("h", <<>>, Block(<<Return(U(0))>>))
SequenceProgram(type, l, last) ==
    Globals \o <<FuncDefOf(type, "f", <<Param("p", FALSE)>>, Block(<<Decl(V("x"))>> \o l))>>
            \o last

\* ------------------------------------------------------- the state machine
VARIABLES prog, pc, g, status, walk, sel, out
vars == <<prog, pc, g, status, walk, sel, out>>

\* no function is being executed
Idle == [fi |-> 0, pos |-> 0, touched |-> {}, short |-> {}, back |-> 0, slot |-> NullVal, via |-> 0]

\* no instruction selector has been constructed
NoSelector ==
    [ir |-> <<>>, dead |-> {}, inReg |-> {}, named |-> FALSE, ip |-> 1, asm |-> <<>>,
     fused |-> {}, objs |-> {}]

\* nothing has been printed: the static counter of LabelInstruction::toString
\* is at its initial value
NoOutput == [uniqueLabelCount |-> 0, text |-> <<>>]

\* the generator is constructed on the compile unit p
Lowering(p) ==
    /\ prog = p
    /\ pc = 0
    /\ g = InitGen
    /\ status = "lowering"
    /\ walk = Idle
    /\ sel = NoSelector
    /\ out = NoOutput
\* the compile units of the first family whose statement of interest is
\* one of focal
InitOf(focal) ==
    \E first \in {<<>>, <<LoopFunction>>}, pre \in {<<>>, <<ClosedLoop>>},
       s \in Nested(MaxDepth, focal) :
        Lowering(Program(first, Body(pre, s)))
\* the same at the time now of the clock
LoweringAt(p, now) ==
    /\ prog = p
    /\ pc = 0
    /\ g = [InitGen EXCEPT !.now = now]
    /\ status = "lowering"
    /\ walk = Idle
    /\ sel = NoSelector
    /\ out = NoOutput
\* the compile units of the second family
InitSequences ==
    \E type \in {TypeInt, TypeVoid}, l \in StmtLists, last \in {<<>>, <<NextFunction>>} :
        Lowering(SequenceProgram(type, l, last))
Init == InitOf(Focal) \/ InitSequences

\* the compile units of the second family whose statements are declarations
\* of names visible from outside: int b; (b a global), int b[D1]; and a
\* block { int x; x = p; }, and the assignment x = p;
DeclStmts ==
    {Decl(V("b")), Decl(ArrayDef(TypeInt, D1, "b")),
     Block(<<Decl(V("x")), Bin("assign", V("x"), V("p"))>>),
     Bin("assign", V("x"), V("p"))}
InitDeclare ==
    \E type \in {TypeInt, TypeVoid}, l \in UNION {[1..n -> DeclStmts] : n \in 1..MaxStmts},
       last \in {<<>>, <<NextFunction>>} :
        Lowering(SequenceProgram(type, l, last))

\* the times std::time(nullptr) can return in a run
MaxTime == 2
Times == 1..MaxTime
\* the compile units of the first family, lowered at any of the times
InitClock ==
    \E now \in Times, pre \in {<<>>, <<ClosedLoop>>}, s \in Nested(MaxDepth, Focal) :
        LoweringAt(Program(<<>>, Body(pre, s)), now)

\* ir_compile_unit, one son per step: a declaration statement
LowerDeclaration ==
    /\ status = "lowering"
    /\ pc < Len(prog)
    /\ prog[pc + 1].op = "decl_stmt"
    /\ LET r == ir_visit_ast_node(prog[pc + 1], Par("compile_unit", pc + 1), g)
       IN /\ g' = r.g
          /\ status' = IF r.ok THEN "lowering" ELSE "error"
    /\ pc' = pc + 1
    /\ UNCHANGED <<prog, walk, sel, out>>

\* ir_compile_unit, one son per step: a function definition
LowerFunction ==
    /\ status = "lowering"
    /\ pc < Len(prog)
    /\ prog[pc + 1].op = "func_def"
    /\ LET r == ir_visit_ast_node(prog[pc + 1], Par("compile_unit", pc + 1), g)
       IN /\ g' = r.g
          /\ status' = IF r.ok THEN "lowering" ELSE "error"
    /\ pc' = pc + 1
    /\ UNCHANGED <<prog, walk, sel, out>>

\* ir_compile_unit returns true after the last son
Finish ==
    /\ status = "lowering"
    /\ pc = Len(prog)
    /\ status' = "ok"
    /\ UNCHANGED <<prog, pc, g, walk, sel, out>>

Next == LowerDeclaration \/ LowerFunction \/ Finish
Spec == Init /\ [][Next]_vars
SpecClock == InitClock /\ [][Next]_vars
SpecDeclare == InitDeclare /\ [][Next]_vars

\* --------------------------------------------- execution of the lowered IR
\* The instruction list of a lowered function is executed from its first
\* instruction: a goto continues at its target label, a bc at its true or
\* its false label (either, the condition's value being left open), Exit
\* ends the run, any other instruction falls through.  Per && and || node
\* the run keeps whether its short-circuit edge was taken (short) and
\* whether an instruction made by lowering its right operand has run
\* (touched), both until the node's end label is passed.  It also keeps the
\* value last moved into the function's return slot (slot) and the identity
\* of the goto last taken (via).
Code == g.funcs[walk.fi].code
Current == Code[walk.pos]
Running == walk.fi /= 0 /\ walk.pos /= 0
Nodes == {n \in 1..Len(g.slog) : g.slog[n].func = g.funcs[walk.fi].name}

\* the bookkeeping of executing inst and going on at position to
Executed(inst, to, shorted) ==
    LET ended == {n \in Nodes : inst.op = "label" /\ g.slog[n].endl = inst.id}
        ran == {n \in Nodes : g.slog[n].lo <= inst.id /\ inst.id < g.slog[n].hi}
    IN [walk EXCEPT !.pos = to,
                    !.touched = (@ \cup ran) \ ended,
                    !.short = (@ \cup shorted) \ ended,
                    !.back = IF to /= 0 /\ to <= walk.pos THEN @ + 1 ELSE @,
                    !.slot = IF inst.op = "move" /\ inst.sub = ""
                                /\ inst.ops[1] = g.funcs[walk.fi].retVal
                             THEN inst.ops[2] ELSE @,
                    !.via = IF inst.op = "goto" THEN inst.id ELSE @]

\* a lowered function is entered
ExecEnter ==
    /\ status = "ok"
    /\ walk.fi = 0
    /\ \E fi \in 1..Len(g.funcs) :
          /\ g.funcs[fi].done
          /\ walk' = [Idle EXCEPT !.fi = fi, !.pos = 1]
    /\ UNCHANGED <<prog, pc, g, status, sel, out>>

\* an instruction that is no branch: the next instruction follows
ExecStep ==
    /\ Running
    /\ Current.op \notin {"goto", "bc", "exit"}
    /\ walk' = Executed(Current, walk.pos + 1, {})
    /\ UNCHANGED <<prog, pc, g, status, sel, out>>

\* a goto: its target label follows
ExecGoto ==
    /\ Running
    /\ Current.op = "goto"
    /\ LET to == Pos(Code, Current.ops[1].i)
       IN /\ to > walk.pos \/ walk.back < MaxBack
          /\ walk' = Executed(Current, to, {})
    /\ UNCHANGED <<prog, pc, g, status, sel, out>>

\* a bc whose condition is not zero: its true label follows
ExecBcTrue ==
    /\ Running
    /\ Current.op = "bc"
    /\ walk' = Executed(Current, Pos(Code, Current.ops[2].i),
                        {n \in Nodes : g.slog[n].kind = "or" /\ g.slog[n].bc = Current.id})
    /\ UNCHANGED <<prog, pc, g, status, sel, out>>

\* a bc whose condition is zero: its false label follows
ExecBcFalse ==
    /\ Running
    /\ Current.op = "bc"
    /\ walk' = Executed(Current, Pos(Code, Current.ops[3].i),
                        {n \in Nodes : g.slog[n].kind = "and" /\ g.slog[n].bc = Current.id})
    /\ UNCHANGED <<prog, pc, g, status, sel, out>>

\* Exit: the run ends
ExecExit ==
    /\ Running
    /\ Current.op = "exit"
    /\ walk' = Executed(Current, 0, {})
    /\ UNCHANGED <<prog, pc, g, status, sel, out>>

InitExec == InitOf(FocalLogical)
NextExec ==
    \/ LowerDeclaration \/ LowerFunction \/ Finish
    \/ ExecEnter \/ ExecStep \/ ExecGoto \/ ExecBcTrue \/ ExecBcFalse \/ ExecExit
SpecExec == InitExec /\ [][NextExec]_vars

\* the compile units executed for their returns: the first family around
\* return 0; and return p;, and the second family
ReturnFocal == {Return(U(0)), Return(V("p"))}
InitReturn == InitOf(ReturnFocal) \/ InitSequences
SpecReturn == InitReturn /\ [][NextExec]_vars

\* ------------------------------------------------- printing of the IR text
\* toString is called on the instructions of a lowered function, front to
\* back; an instruction can be printed again.  out.text keeps one record per
\* call: the function and position of the instruction, its identity and
\* opcode, the text str and the label names in it.
MaxPrints == 3

\* LabelInstruction::toString, the name: labelName, else IRName, else a name
\* made from the static counter; a dot is put before a name without one (the
\* names generate_label makes start with L)
LabelInstruction_name(inst, uniqueLabelCount) ==
    IF inst.labelName /= "" THEN "." \o inst.labelName
    ELSE IF inst.IRName /= "" THEN "." \o inst.IRName
    ELSE ".L" \o to_string(uniqueLabelCount)
\* (a toString whose made-up name does not move with the counter)
LabelInstruction_toString_fixed(inst, o) ==
    [str |-> LabelInstruction_name(inst, 0) \o ":",
     names |-> <<LabelInstruction_name(inst, 0)>>,
     uniqueLabelCount |-> o.uniqueLabelCount]
\* LabelInstruction::toString: the name and a colon; the static counter moves
\* on when the name was made from it
LabelInstruction_toString(inst, o) ==
    [str |-> LabelInstruction_name(inst, o.uniqueLabelCount) \o ":",
     names |-> <<LabelInstruction_name(inst, o.uniqueLabelCount)>>,
     uniqueLabelCount |-> IF inst.labelName = "" /\ inst.IRName = ""
                          THEN o.uniqueLabelCount + 1 ELSE o.uniqueLabelCount]

\* the LabelInstruction object a branch points to: the one of the list if it
\* is there, an object of the same construction otherwise
TargetOf(code, v) ==
    IF Pos(code, v.i) > 0 THEN code[Pos(code, v.i)] ELSE LabelInstruction(v.i, "")

\* GotoInstruction::toString
GotoInstruction_toString(inst, code, o) ==
    [str |-> "br label " \o getValueID(TargetOf(code, inst.ops[1])),
     names |-> <<getValueID(TargetOf(code, inst.ops[1]))>>,
     uniqueLabelCount |-> o.uniqueLabelCount]

\* BcInstruction::toString; the condition prints as its getIRName()
BcInstruction_toString(inst, code, o) ==
    [str |-> "bc " \o inst.ops[1].n \o ", label " \o getValueID(TargetOf(code, inst.ops[2]))
             \o ", label " \o getValueID(TargetOf(code, inst.ops[3])),
     names |-> <<getValueID(TargetOf(code, inst.ops[2])), getValueID(TargetOf(code, inst.ops[3]))>>,
     uniqueLabelCount |-> o.uniqueLabelCount]

\* toString can be called on the instruction at position at of function fi
Printable(fi, at) ==
    /\ status = "ok"
    /\ Len(out.text) < MaxPrints
    /\ g.funcs[fi].done
    /\ out.text /= <<>> =>
          /\ out.text[Len(out.text)].fi = fi
          /\ out.text[Len(out.text)].at <= at
\* the call has returned r
Printed(fi, at, r) ==
    [uniqueLabelCount |-> r.uniqueLabelCount,
     text |-> Append(out.text, [fi |-> fi, at |-> at, id |-> g.funcs[fi].code[at].id,
                                op |-> g.funcs[fi].code[at].op, str |-> r.str,
                                names |-> r.names])]

PrintLabel ==
    /\ \E fi \in 1..Len(g.funcs) : \E at \in 1..Len(g.funcs[fi].code) :
          /\ Printable(fi, at)
          /\ g.funcs[fi].code[at].op = "label"
          /\ out' = Printed(fi, at, LabelInstruction_toString(g.funcs[fi].code[at], out))
    /\ UNCHANGED <<prog, pc, g, status, walk, sel>>

PrintGoto ==
    /\ \E fi \in 1..Len(g.funcs) : \E at \in 1..Len(g.funcs[fi].code) :
          /\ Printable(fi, at)
          /\ g.funcs[fi].code[at].op = "goto"
          /\ out' = Printed(fi, at, GotoInstruction_toString(g.funcs[fi].code[at],
                                                            g.funcs[fi].code, out))
    /\ UNCHANGED <<prog, pc, g, status, walk, sel>>

PrintBc ==
    /\ \E fi \in 1..Len(g.funcs) : \E at \in 1..Len(g.funcs[fi].code) :
          /\ Printable(fi, at)
          /\ g.funcs[fi].code[at].op = "bc"
          /\ out' = Printed(fi, at, BcInstruction_toString(g.funcs[fi].code[at],
                                                          g.funcs[fi].code, out))
    /\ UNCHANGED <<prog, pc, g, status, walk, sel>>

\* the compile units printed: the second family, and the globals with a
\* function that holds a loop
InitPrint == InitSequences \/ Lowering(Globals \o <<LoopFunction>>)
NextPrint ==
    \/ LowerDeclaration \/ LowerFunction \/ Finish
    \/ PrintLabel \/ PrintGoto \/ PrintBc
SpecPrint == InitPrint /\ [][NextPrint]_vars

\* ------------------------------------------- instruction selection (ARM32)
\* InstSelectorArm32 translates the instruction list ir of one function, one
\* instruction after the other, into the assembly list of its ILocArm32.
\* sel.ir is the list, sel.dead the identities of the instructions marked
\* dead, sel.inReg the identities of the values bound to a register
\* (getRegId() /= -1), sel.named whether the labels carry a name, sel.ip the
\* position run() has come to and sel.asm the assembly emitted so far; each
\* assembly line keeps the identity (by) of the instruction whose
\* translation emitted it.  sel.fused keeps the compares translate_icmp left
\* to a conditional branch, sel.alloc is the register allocator and sel.was
\* the registers that were occupied before the instruction translated last.

\* longest instruction list handed to the selector
MaxIR == 3

\* IfInstruction: a conditional goto of opcode IRINST_OP_IFNOT
IfInstruction(id, cond, target) == Inst(id, "ifnot", "", <<cond, target>>, cond.t)

\* the compare types IcmpInstruction is built with
Relops == {"eq", "ne", "lt", "le", "gt", "ge"}

\* the opcodes the constructor registers a handler for
translator_handlers ==
    {"entry", "exit", "label", "goto", "move", "add", "sub", "mul", "div", "mod",
     "neg", "call", "arg", "icmp", "bc"}

\* operands of an assembly line: a register (the one holding the value of
\* identity of, or the register r<of> itself), the memory at sp + of, an
\* immediate, a label name
Reg(v) ==
    [kind |-> IF v.k = "mem" THEN "mem" ELSE "reg", of |-> v.i,
     s |-> IF v.k \in {"reg", "mem"} THEN v.n ELSE ""]
Imm(s) == [kind |-> "imm", of |-> 0, s |-> s]
Lab(s) == [kind |-> "label", of |-> 0, s |-> s]
Line(m, a, by) == [m |-> m, a |-> a, by |-> by]

\* Value::getRegId() /= -1
HasReg(v, s) == v.k = "reg" \/ (v.k # "mem" /\ v.i \in s.inReg)

\* Value::getName() of a label
getName(label, s) == IF s.named THEN "L" \o to_string(label.i) ELSE ""

\* iloc.load_var(reg, v) where v is bound to no register, nothing otherwise
LoadVar(v, s, by) == IF HasReg(v, s) THEN <<>> ELSE <<Line("ldr", <<Reg(v), Reg(v)>>, by)>>
\* iloc.store_var(reg, v, tmp) where v is bound to no register
StoreVar(v, s, by) == IF HasReg(v, s) THEN <<>> ELSE <<Line("str", <<Reg(v), Reg(v)>>, by)>>

\* the condition of the opposite outcome
Negated(relop) ==
    CASE relop = "eq" -> "ne" [] relop = "ne" -> "eq"
      [] relop = "lt" -> "ge" [] relop = "ge" -> "lt"
      [] relop = "le" -> "gt" [] relop = "gt" -> "le"

\* translate_label
translate_label(inst, s) == <<Line("label", <<Lab(getName(ValOf(inst), s))>>, inst.id)>>

\* translate_goto: nothing is emitted for a target without a name
translate_goto(inst, s) ==
    IF IsNull(inst.ops[1]) \/ getName(inst.ops[1], s) = "" THEN <<>>
    ELSE <<Line("b", <<Lab(getName(inst.ops[1], s))>>, inst.id)>>

\* translate_assign: a register source is stored (moved, when the result is
\* a register too), a register result is loaded, otherwise the source goes
\* through a temporary register
translate_assign(inst, s) ==
    IF HasReg(inst.ops[2], s)
    THEN <<IF HasReg(inst.ops[1], s)
           THEN Line("mov", <<Reg(inst.ops[1]), Reg(inst.ops[2])>>, inst.id)
           ELSE Line("str", <<Reg(inst.ops[2]), Reg(inst.ops[1])>>, inst.id)>>
    ELSE IF HasReg(inst.ops[1], s)
    THEN <<Line("ldr", <<Reg(inst.ops[1]), Reg(inst.ops[2])>>, inst.id)>>
    ELSE <<Line("ldr", <<Reg(inst.ops[2]), Reg(inst.ops[2])>>, inst.id),
           Line("str", <<Reg(inst.ops[2]), Reg(inst.ops[1])>>, inst.id)>>

\* translate_two_operator: op rd, rs1, rs2 between the loads of the operands
\* and the store of the result
translate_two_operator(inst, s) ==
    LoadVar(inst.ops[1], s, inst.id) \o LoadVar(inst.ops[2], s, inst.id)
    \o <<Line(inst.op, <<Reg(ValOf(inst)), Reg(inst.ops[1]), Reg(inst.ops[2])>>, inst.id)>>
    \o StoreVar(ValOf(inst), s, inst.id)

\* the number of following instructions translate_icmp looks at
Lookahead == 3

\* BcInstruction::getCondition() == inst
ConsumedBy(bc, inst) == bc.op = "bc" /\ bc.ops[1].k = "inst" /\ bc.ops[1].i = inst.id

\* translate_icmp, needsStorage: false when one of the instructions that
\* follow inst in ir, Lookahead of them at most, is a bc whose condition is
\* inst
needsStorage(inst, s) ==
    ~\E j \in 1..Len(s.ir) :
        /\ Pos(s.ir, inst.id) < j
        /\ j <= Pos(s.ir, inst.id) + Lookahead
        /\ ConsumedBy(s.ir[j], inst)

\* translate_icmp with needsStorage: cmp, mov<cond> rd,#1, mov<!cond> rd,#0
\* between the loads of the operands and the store of the result
translate_icmp_store(inst, s) ==
    LoadVar(inst.ops[1], s, inst.id) \o LoadVar(inst.ops[2], s, inst.id)
    \o <<Line("cmp", <<Reg(inst.ops[1]), Reg(inst.ops[2])>>, inst.id),
         Line("mov" \o inst.sub, <<Reg(ValOf(inst)), Imm("#1")>>, inst.id),
         Line("mov" \o Negated(inst.sub), <<Reg(ValOf(inst)), Imm("#0")>>, inst.id)>>
    \o StoreVar(ValOf(inst), s, inst.id)

\* translate_icmp: nothing is emitted without needsStorage
translate_icmp(inst, s) == IF needsStorage(inst, s) THEN translate_icmp_store(inst, s) ELSE <<>>

\* (a translation of the bc that leaves out the branch to the false label)
translate_bc_nofall(inst, icmp, s) ==
    LoadVar(icmp.ops[1], s, inst.id) \o LoadVar(icmp.ops[2], s, inst.id)
    \o <<Line("cmp", <<Reg(icmp.ops[1]), Reg(icmp.ops[2])>>, inst.id),
         Line("b" \o icmp.sub, <<Lab(getName(inst.ops[2], s))>>, inst.id)>>
\* translate_bc, the condition is an IcmpInstruction: cmp of the compare's
\* operands, b<relop> to the true label, b to the false label
translate_bc_icmp(inst, icmp, s) ==
    LoadVar(icmp.ops[1], s, inst.id) \o LoadVar(icmp.ops[2], s, inst.id)
    \o <<Line("cmp", <<Reg(icmp.ops[1]), Reg(icmp.ops[2])>>, inst.id),
         Line("b" \o icmp.sub, <<Lab(getName(inst.ops[2], s))>>, inst.id),
         Line("b", <<Lab(getName(inst.ops[3], s))>>, inst.id)>>

\* translate_bc, any other condition: cmp with #0, beq to the false label,
\* b to the true label
translate_bc_value(inst, s) ==
    LoadVar(inst.ops[1], s, inst.id)
    \o <<Line("cmp", <<Reg(inst.ops[1]), Imm("#0")>>, inst.id),
         Line("beq", <<Lab(getName(inst.ops[3], s))>>, inst.id),
         Line("b", <<Lab(getName(inst.ops[2], s))>>, inst.id)>>

\* dynamic_cast<IcmpInstruction *>(condition): the compare whose value v is
IcmpOf(v, s) == {o \in s.objs : o.op = "icmp" /\ v.k = "inst" /\ o.id = v.i}

translate_bc(inst, s) ==
    IF IcmpOf(inst.ops[1], s) = {} THEN translate_bc_value(inst, s)
    ELSE translate_bc_icmp(inst, CHOOSE o \in IcmpOf(inst.ops[1], s) : TRUE, s)

\* ---- the register allocator the handlers share
\* the registers Allocate() hands out
ScratchRegs == {4, 5, 6, 7, 10}

\* the allocator of a selector that has translated nothing: no register is
\* occupied; at holds the pairs <<key, register>> of the values (a value's
\* identity) and temporaries (a negative number) a register was handed to
NoneOccupied == [occ |-> {}, at |-> {}]

\* the lowest register of a set
Lowest(S) == CHOOSE r \in S : \A q \in S : r <= q

\* Allocate(value) and Allocate(): the register the value already holds, the
\* lowest free one otherwise, none when every one is occupied
Allocate(a, key) ==
    IF (\E p \in a.at : p[1] = key) \/ ScratchRegs \subseteq a.occ THEN a
    ELSE [occ |-> a.occ \cup {Lowest(ScratchRegs \ a.occ)},
          at |-> a.at \cup {<<key, Lowest(ScratchRegs \ a.occ)>>}]

\* free(value), free(reg_no) of the register a temporary was given
free(a, key) ==
    [occ |-> a.occ \ {p[2] : p \in {q \in a.at : q[1] = key}},
     at |-> {q \in a.at : q[1] # key}]

\* Allocate(no): the register no is taken
AllocateReg(a, no) == [a EXCEPT !.occ = @ \cup {no}]

\* free(no)
freeReg(a, no) == [occ |-> a.occ \ {no}, at |-> {q \in a.at : q[2] # no}]

\* the allocator after the calls ops, in their order
RECURSIVE Allocated(_, _)
Allocated(ops, a) ==
    IF ops = <<>> THEN a
    ELSE Allocated(Tail(ops),
                   CASE ops[1][1] = "Allocate" -> Allocate(a, ops[1][2])
                     [] ops[1][1] = "free" -> free(a, ops[1][2])
                     [] ops[1][1] = "AllocateReg" -> AllocateReg(a, ops[1][2])
                     [] ops[1][1] = "freeReg" -> freeReg(a, ops[1][2]))

\* v->getRegId() != -1 ? v->getRegId() : Allocate(v)
AllocateFor(v, s) == IF HasReg(v, s) THEN <<>> ELSE <<<<"Allocate", v.i>>>>
\* if (v->getRegId() == -1) free(v)
FreeFor(v, s) == IF HasReg(v, s) THEN <<>> ELSE <<<<"free", v.i>>>>

\* the temporary registers of a handler
Temp(n) == [k |-> "temp", i |-> 0 - n, n |-> "", t |-> IntTy]

\* the allocator calls of translate_assign: a memory to memory move takes a
\* temporary
assign_registers(inst, s) ==
    IF HasReg(inst.ops[2], s) \/ HasReg(inst.ops[1], s) THEN <<>>
    ELSE <<<<"Allocate", Temp(1).i>>, <<"free", Temp(1).i>>>>

\* the allocator calls of translate_two_operator
two_operator_registers(inst, s) ==
    AllocateFor(inst.ops[1], s) \o AllocateFor(inst.ops[2], s) \o AllocateFor(ValOf(inst), s)
    \o <<<<"free", inst.ops[1].i>>, <<"free", inst.ops[2].i>>, <<"free", inst.id>>>>

\* the allocator calls of translate_icmp
icmp_registers(inst, s) ==
    IF needsStorage(inst, s) THEN two_operator_registers(inst, s) ELSE <<>>

\* the allocator calls of translate_bc
bc_registers(inst, s) ==
    IF IcmpOf(inst.ops[1], s) = {}
    THEN AllocateFor(inst.ops[1], s) \o <<<<"free", inst.ops[1].i>>>>
    ELSE AllocateFor((CHOOSE o \in IcmpOf(inst.ops[1], s) : TRUE).ops[1], s)
         \o AllocateFor((CHOOSE o \in IcmpOf(inst.ops[1], s) : TRUE).ops[2], s)
         \o <<<<"free", (CHOOSE o \in IcmpOf(inst.ops[1], s) : TRUE).ops[1].i>>,
              <<"free", (CHOOSE o \in IcmpOf(inst.ops[1], s) : TRUE).ops[2].i>>>>

\* (the allocator calls of a translate_mod_int32 that keeps its second
\* temporary)
mod_registers_kept(inst, s) ==
    <<<<"Allocate", Temp(1).i>>, <<"Allocate", Temp(2).i>>>>
    \o AllocateFor(ValOf(inst), s) \o AllocateFor(inst.ops[1], s) \o AllocateFor(inst.ops[2], s)
    \o <<<<"free", Temp(1).i>>>>
    \o FreeFor(inst.ops[1], s) \o FreeFor(inst.ops[2], s) \o FreeFor(ValOf(inst), s)
\* the allocator calls of translate_mod_int32
mod_registers(inst, s) ==
    <<<<"Allocate", Temp(1).i>>, <<"Allocate", Temp(2).i>>>>
    \o AllocateFor(ValOf(inst), s) \o AllocateFor(inst.ops[1], s) \o AllocateFor(inst.ops[2], s)
    \o <<<<"free", Temp(1).i>>, <<"free", Temp(2).i>>>>
    \o FreeFor(inst.ops[1], s) \o FreeFor(inst.ops[2], s) \o FreeFor(ValOf(inst), s)

\* translate_mod_int32: the operands are loaded twice; sdiv into the first
\* temporary, mul by the divisor into the second, sub from the dividend
translate_mod(inst, s) ==
    LoadVar(inst.ops[1], s, inst.id) \o LoadVar(inst.ops[2], s, inst.id)
    \o LoadVar(inst.ops[1], s, inst.id) \o LoadVar(inst.ops[2], s, inst.id)
    \o <<Line("sdiv", <<Reg(Temp(1)), Reg(inst.ops[1]), Reg(inst.ops[2])>>, inst.id),
         Line("mul", <<Reg(Temp(2)), Reg(Temp(1)), Reg(inst.ops[2])>>, inst.id),
         Line("sub", <<Reg(ValOf(inst)), Reg(inst.ops[1]), Reg(Temp(2))>>, inst.id)>>
    \o StoreVar(ValOf(inst), s, inst.id)

\* ---- calls
\* FuncCallInstruction: the call of the function name with the arguments
\* args; hasResultValue() is type /= void
FuncCallInstruction(id, name, args, type) == Inst(id, "call", name, args, type)

\* PlatformArm32::intRegVal[k]
intRegVal(k) == [k |-> "reg", i |-> k, n |-> "r" \o to_string(k), t |-> IntTy]

\* the memory variable translate_call makes for a stack argument:
\* setMemoryAddr(ARM32_SP_REG_NO, esp)
newMemVariable(esp) == [k |-> "mem", i |-> esp, n |-> "sp", t |-> IntTy]

\* translate_call, the first loop: the arguments from the fifth on are
\* assigned to the memory variables at sp + 0, sp + 4, ...
RECURSIVE call_stack_args(_, _, _)
call_stack_args(inst, k, s) ==
    IF k > Len(inst.ops) THEN <<>>
    ELSE translate_assign(MoveInstruction(inst.id, newMemVariable(4 * (k - 5)), inst.ops[k], ""), s)
         \o call_stack_args(inst, k + 1, s)

\* translate_call, the second loop: the first four arguments are assigned to
\* r0..r3
RECURSIVE call_reg_args(_, _, _)
call_reg_args(inst, k, s) ==
    IF k > Len(inst.ops) \/ k > 4 THEN <<>>
    ELSE translate_assign(MoveInstruction(inst.id, intRegVal(k - 1), inst.ops[k], ""), s)
         \o call_reg_args(inst, k + 1, s)

\* translate_call, after bl: the assignment of r0 to the call's value
call_result(inst, s) ==
    IF inst.t = VoidTy THEN <<>>
    ELSE translate_assign(MoveInstruction(inst.id, ValOf(inst), intRegVal(0), ""), s)

\* (a translate_call that assigns the register arguments after the bl)
translate_call_late(inst, s) ==
    call_stack_args(inst, 5, s) \o <<Line("bl", <<Lab(inst.sub)>>, inst.id)>>
    \o call_reg_args(inst, 1, s) \o call_result(inst, s)
\* translate_call
translate_call(inst, s) ==
    call_stack_args(inst, 5, s) \o call_reg_args(inst, 1, s)
    \o <<Line("bl", <<Lab(inst.sub)>>, inst.id)>>
    \o call_result(inst, s)

\* the allocator calls of translate_call: r0..r3 are taken while the
\* arguments are assigned, a stack argument in memory goes through a
\* temporary; the other assignments have a register on one side and take none
RECURSIVE call_stack_registers(_, _, _)
call_stack_registers(inst, k, s) ==
    IF k > Len(inst.ops) THEN <<>>
    ELSE assign_registers(MoveInstruction(inst.id, newMemVariable(4 * (k - 5)), inst.ops[k], ""), s)
         \o call_stack_registers(inst, k + 1, s)
call_registers(inst, s) ==
    IF inst.ops = <<>> THEN <<>>
    ELSE <<<<"AllocateReg", 0>>, <<"AllocateReg", 1>>, <<"AllocateReg", 2>>, <<"AllocateReg", 3>>>>
         \o call_stack_registers(inst, 5, s)
         \o <<<<"freeReg", 0>>, <<"freeReg", 1>>, <<"freeReg", 2>>, <<"freeReg", 3>>>>

\* the instruction objects the lists handed to the selector are made of: a
\* compare of x and y, a bc on it, a label, an add, a move of the compare's
\* value, a goto, a bc on x and a conditional goto
SelX == [k |-> "local", i |-> 11, n |-> "x", t |-> IntTy]
SelY == [k |-> "local", i |-> 12, n |-> "y", t |-> IntTy]
SelZ == [k |-> "local", i |-> 13, n |-> "z", t |-> IntTy]
SelLabel(id) == ValOf(LabelInstruction(id, LabelName(id)))
SelCmp(relop) == IcmpInstruction(1, SelX, SelY, relop)
Objects(relop) ==
    {SelCmp(relop),
     BcInstruction(2, ValOf(SelCmp(relop)), SelLabel(3), SelLabel(4)),
     LabelInstruction(3, LabelName(3)),
     BinaryInstruction(5, "add", SelX, SelY, IntTy),
     MoveInstruction(6, SelZ, ValOf(SelCmp(relop)), ""),
     GotoInstruction(7, SelLabel(3)),
     BcInstruction(8, SelX, SelLabel(3), SelLabel(4)),
     IfInstruction(9, SelX, SelLabel(3))}
SelValues == {1, 5, 11, 12, 13}

\* the most arguments of a call
MaxArgs == 5

\* a second family of objects: a call of h with n arguments, of result type
\* type, a mod and an add
SelArg(k) == [k |-> "local", i |-> 20 + k, n |-> "a" \o to_string(k), t |-> IntTy]
SelCall(n, type) == FuncCallInstruction(30, "h", [k \in 1..n |-> SelArg(k - 1)], type)
CallObjects(n, type) ==
    {SelCall(n, type),
     BinaryInstruction(31, "mod", SelX, SelY, IntTy),
     BinaryInstruction(5, "add", SelX, SelY, IntTy)}
\* the values bound to a register: none, every one, or x and every other
\* argument
CallValues == {{}, SelValues \cup {30, 31} \cup {20 + k : k \in 0..MaxArgs},
               {11} \cup {21 + 2 * k : k \in 0..MaxArgs}}

\* the lists of at most MaxIR distinct objects
Lists(objs) ==
    {l \in UNION {[1..n -> objs] : n \in 0..MaxIR} :
        \A i, j \in 1..Len(l) : l[i] = l[j] => i = j}

\* a selector constructed on the list ir
Selector(objs, ir, dead, inReg, named) ==
    [ir |-> ir, dead |-> dead, inReg |-> inReg, named |-> named, ip |-> 1, asm |-> <<>>,
     fused |-> {}, objs |-> objs, alloc |-> NoneOccupied, was |-> NoneOccupied.occ]


\* at most one instruction of the list is marked dead
Deads(ir) == {{}} \cup {{ir[j].id} : j \in 1..Len(ir)}

\* run(): the instruction the loop has come to
SelCurrent == sel.ir[sel.ip]
Selecting == status = "selecting" /\ sel.ip <= Len(sel.ir)
\* translate(inst) is called and finds the handler of opcode op
Translating(op) == Selecting /\ SelCurrent.id \notin sel.dead /\ SelCurrent.op = op
\* the handler has emitted lines; the loop goes on with the next instruction
\* (was: the registers occupied when the instruction was come to)
Emitted(lines) == [sel EXCEPT !.ip = @ + 1, !.asm = @ \o lines, !.was = sel.alloc.occ]
\* the handler has emitted lines and made the allocator calls ops
Translated(lines, ops) == [Emitted(lines) EXCEPT !.alloc = Allocated(ops, @)]

\* run(): a dead instruction is not translated
SelectDead ==
    /\ Selecting
    /\ SelCurrent.id \in sel.dead
    /\ sel' = Emitted(<<>>)
    /\ UNCHANGED <<prog, pc, g, status, walk, out>>

\* translate(): no handler is registered for the opcode; translate returns
\* and run() goes on with the next instruction
SelectUnsupported ==
    /\ Selecting
    /\ SelCurrent.id \notin sel.dead
    /\ SelCurrent.op \notin translator_handlers
    /\ sel' = Emitted(<<>>)
    /\ UNCHANGED <<prog, pc, g, status, walk, out>>

SelectLabel ==
    /\ Translating("label")
    /\ sel' = Emitted(translate_label(SelCurrent, sel))
    /\ UNCHANGED <<prog, pc, g, status, walk, out>>

SelectGoto ==
    /\ Translating("goto")
    /\ sel' = Emitted(translate_goto(SelCurrent, sel))
    /\ UNCHANGED <<prog, pc, g, status, walk, out>>

SelectAssign ==
    /\ Translating("move")
    /\ sel' = Translated(translate_assign(SelCurrent, sel), assign_registers(SelCurrent, sel))
    /\ UNCHANGED <<prog, pc, g, status, walk, out>>

SelectAdd ==
    /\ Translating("add")
    /\ sel' = Translated(translate_two_operator(SelCurrent, sel),
                          two_operator_registers(SelCurrent, sel))
    /\ UNCHANGED <<prog, pc, g, status, walk, out>>

SelectIcmp ==
    /\ Translating("icmp")
    /\ sel' = [Translated(translate_icmp(SelCurrent, sel), icmp_registers(SelCurrent, sel)) EXCEPT
                 !.fused = IF needsStorage(SelCurrent, sel) THEN @ ELSE @ \cup {SelCurrent.id}]
    /\ UNCHANGED <<prog, pc, g, status, walk, out>>

SelectBc ==
    /\ Translating("bc")
    /\ sel' = Translated(translate_bc(SelCurrent, sel), bc_registers(SelCurrent, sel))
    /\ UNCHANGED <<prog, pc, g, status, walk, out>>

SelectMod ==
    /\ Translating("mod")
    /\ sel' = Translated(translate_mod(SelCurrent, sel), mod_registers(SelCurrent, sel))
    /\ UNCHANGED <<prog, pc, g, status, walk, out>>

SelectCall ==
    /\ Translating("call")
    /\ sel' = Translated(translate_call(SelCurrent, sel), call_registers(SelCurrent, sel))
    /\ UNCHANGED <<prog, pc, g, status, walk, out>>

InitSel ==
    /\ prog = <<>>
    /\ pc = 0
    /\ g = InitGen
    /\ status = "selecting"
    /\ walk = Idle
    /\ out = NoOutput
    /\ \/ \E relop \in Relops : \E ir \in Lists(Objects(relop)) :
             \E dead \in Deads(ir), inReg \in {{}, SelValues}, named \in BOOLEAN :
                sel = Selector(Objects(relop), ir, dead, inReg, named)
       \/ \E n \in 0..MaxArgs, type \in {IntTy, VoidTy} : \E ir \in Lists(CallObjects(n, type)) :
             \E dead \in Deads(ir), inReg \in CallValues :
                sel = Selector(CallObjects(n, type), ir, dead, inReg, TRUE)
NextSel ==
    \/ SelectDead \/ SelectUnsupported \/ SelectLabel \/ SelectGoto
    \/ SelectAssign \/ SelectAdd \/ SelectIcmp \/ SelectBc
    \/ SelectMod \/ SelectCall
SpecSel == InitSel /\ [][NextSel]_vars

\* ------------------------------------------------------------- properties
Funcs == Range(g.funcs)
DoneFuncs == {f \in Funcs : f.done}
DoneNames == {f.name : f \in DoneFuncs}
CodeOf(name) == (CHOOSE f \in Funcs : f.name = name).code
LabelIds(code) == {i.id : i \in {c \in Range(code) : c.op = "label"}}
BranchTargets(inst) ==
    IF inst.op = "goto" THEN {inst.ops[1]}
    ELSE IF inst.op = "bc" THEN {inst.ops[2], inst.ops[3]} ELSE {}

\* C1: in every function whose lowering succeeded, each label named by a
\* goto or a bc is a label instruction of that function's own list
C1_BranchClosure ==
    \A f \in DoneFuncs : \A inst \in Range(f.code) : \A t \in BranchTargets(inst) :
        t.k = "inst" /\ t.i \in LabelIds(f.code)

\* a lowered function with a while loop, a || and its return
C1_Witness ==
    /\ status = "ok"
    /\ \E w \in Range(g.wlog), o \in Range(g.slog) :
          w.func = "f" /\ o.func = "f" /\ o.kind = "or"
    /\ \E inst \in Range(CodeOf("f")) :
          inst.op = "goto" /\ inst.ops[1] = (CHOOSE f \in Funcs : f.name = "f").exitLabel

\* the integer an address operand evaluates to, over literal indices
AllInsts == UNION {Range(f.code) : f \in Funcs}
RECURSIVE IntValue(_)
IntValue(v) ==
    IF v.k = "const" THEN v.i
    ELSE IF v.k = "inst" /\ \E inst \in AllInsts : inst.id = v.i
    THEN LET inst == CHOOSE c \in AllInsts : c.id = v.i
         IN IF inst.op = "mul" THEN IntValue(inst.ops[1]) * IntValue(inst.ops[2])
            ELSE IF inst.op = "add" THEN IntValue(inst.ops[1]) + IntValue(inst.ops[2])
            ELSE -1
    ELSE -1
\* 4 * sum over j of i_j * product of the dimensions after the j-th
RECURSIVE DimProduct(_, _), ElementOffset(_, _, _)
DimProduct(dims, j) == IF j >= Len(dims) THEN 1 ELSE dims[j + 1] * DimProduct(dims, j + 1)
ElementOffset(idx, dims, j) ==
    IF j > Len(idx) THEN 0
    ELSE 4 * idx[j].i * DimProduct(dims, j) + ElementOffset(idx, dims, j + 1)

\* C4: wherever an access with all its indices occurs, its element address
\* is the array plus the byte offset 4 * sum_j i_j * prod_{m>j} d_m
C4_ArrayOffset ==
    \A e \in Range(g.alog) :
        (e.func \in DoneNames /\ Len(e.idx) = Len(e.dims)) =>
            LET inst == CHOOSE c \in AllInsts : c.id = e.addr.i
            IN /\ inst.op = "add"
               /\ inst.ops[1] = e.base
               /\ IntValue(inst.ops[2]) = ElementOffset(e.idx, e.dims, 1)

\* the instructions of a list that read value v
Users(code, v) == {c.id : c \in {i \in Range(code) : \E k \in 1..Len(i.ops) : i.ops[k] = v}}
AddrIds(e) == {id \in e.lo..(e.hi - 1) : TRUE}
LoopOf(tok) == CHOOSE w \in Range(g.wlog) : w.tok = tok

C6_Concatenation ==
    /\ \A f \in DoneFuncs : f.blockStart = 2
    /\ \A n \in Range(g.nlog) :
          n.func \in DoneNames =>
             \A o \in n.own, k \in n.kids :
                 Pos(CodeOf(n.func), k) < Pos(CodeOf(n.func), o)

\* C7: an access that is the left side of an assignment hands on its element
\* address P, with no load, and the assignment is the Move(P, rhs, ArrayWrite)
C7_StoreThroughAddress ==
    \A e \in Range(g.alog) :
        (e.func \in DoneNames /\ e.lhs) =>
            /\ e.load = 0
            /\ e.val = e.addr
            /\ \E inst \in Range(CodeOf(e.func)) :
                  inst.op = "move" /\ inst.sub = "ARRAY_WRITE" /\ inst.ops[1] = e.addr

\* C8: a break lexically inside a while body is one goto to the end label of
\* the innermost enclosing while, a continue one goto to its start label
C8_BreakContinueTarget ==
    \A e \in Range(g.blog) :
        e.lex.tok /= 0 =>
            /\ e.ok
            /\ e.target = IF e.kind = "break" THEN e.lex.endl ELSE e.lex.start
            /\ e.func \in DoneNames =>
                  LET code == CodeOf(e.func)
                  IN /\ Cardinality({j \in 1..Len(code) : code[j].id = e.goto}) = 1
                     /\ code[Pos(code, e.goto)].op = "goto"
                     /\ code[Pos(code, e.goto)].ops[1].i = e.target
                     /\ e.target \in LabelIds(code)

\* a break and a continue that follow a completed inner loop in the body of
\* the outer one
C8_Witness ==
    /\ status = "ok"
    /\ \E e \in Range(g.blog), w \in Range(g.wlog) :
          /\ e.func = w.func /\ e.lex.tok /= 0 /\ w.tok /= e.lex.tok
          /\ e.lex.start < w.start /\ w.back < e.goto
          /\ e.kind = "break"

\* C9: a break or continue outside any while is a lowering error and makes
\* no branch, also after a closed while and in a function after one with loops
C9_OutsideLoopError ==
    \A e \in Range(g.blog) :
        e.lex.tok = 0 =>
            /\ ~e.ok
            /\ e.goto = 0
            /\ status = "error"
            /\ e.func \notin DoneNames

\* a break outside any loop, after a closed while of the same function, in
\* a function lowered after one with a loop
C9_Witness ==
    \E e \in Range(g.blog), w \in Range(g.wlog), v \in Range(g.wlog) :
        /\ e.lex.tok = 0 /\ e.kind = "break"
        /\ w.func = e.func /\ v.func /= e.func /\ v.func \in DoneNames

C2_AndShortCircuit ==
    \A n \in walk.short : g.slog[n].kind = "and" => n \notin walk.touched

\* C3: in A || B with A not zero, no instruction made by lowering B runs
C3_OrShortCircuit ==
    \A n \in walk.short : g.slog[n].kind = "or" => n \notin walk.touched

\* the conditional branches translated so far whose compare translate_icmp
\* left to them
FusedBranches ==
    {j \in 1..(sel.ip - 1) :
        /\ sel.ir[j].op = "bc"
        /\ sel.ir[j].id \notin sel.dead
        /\ sel.ir[j].ops[1].k = "inst"
        /\ sel.ir[j].ops[1].i \in sel.fused}
\* the assembly emitted for the bc at position j and for its compare
PairAsm(j) ==
    SelectSeq(sel.asm, LAMBDA l : l.by \in {sel.ir[j].id, sel.ir[j].ops[1].i})
CondBranches == {"b" \o r : r \in Relops}
CondMoves == {"mov" \o r : r \in Relops}
Where(a, ms) == {i \in 1..Len(a) : a[i].m \in ms}

\* C11: the assembly emitted for a compare and the conditional branch it is
\* fused with holds exactly one cmp, exactly one conditional branch b<cond>,
\* exactly one unconditional b, which follows the conditional branch, and no
\* mov<cond> writing the compare's boolean result into a register
C11_FusedPair ==
    \A j \in FusedBranches :
        /\ Cardinality(Where(PairAsm(j), {"cmp"})) = 1
        /\ Cardinality(Where(PairAsm(j), CondBranches)) = 1
        /\ Cardinality(Where(PairAsm(j), {"b"})) = 1
        /\ \A i \in Where(PairAsm(j), CondBranches) : (i + 1) \in Where(PairAsm(j), {"b"})
        /\ Where(PairAsm(j), CondMoves) = {}
\* a compare of values held in memory and its bc have both been translated,
\* the compare left to the bc
C11_Witness ==
    /\ status = "selecting"
    /\ sel.ip > Len(sel.ir)
    /\ sel.inReg = {}
    /\ \E j \in FusedBranches : Pos(sel.ir, sel.ir[j].ops[1].i) = j - 1

\* the compares translated so far
TranslatedCompares ==
    {j \in 1..(sel.ip - 1) : sel.ir[j].op = "icmp" /\ sel.ir[j].id \notin sel.dead}
\* the position of the next instruction after position j that is not dead
\* (0: there is none)
NextLive(j) ==
    IF \E k \in (j + 1)..Len(sel.ir) : sel.ir[k].id \notin sel.dead
    THEN CHOOSE k \in (j + 1)..Len(sel.ir) :
            /\ sel.ir[k].id \notin sel.dead
            /\ \A l \in (j + 1)..(k - 1) : sel.ir[l].id \in sel.dead
    ELSE 0
\* the assembly emitted by the translation of the instruction at position j
AsmBy(j) == SelectSeq(sel.asm, LAMBDA l : l.by = sel.ir[j].id)
\* mov<cond> rd,#1 followed by mov<!cond> rd,#0 for the compare at j
Materialised(j) ==
    \E i \in 1..(Len(AsmBy(j)) - 1) :
        /\ AsmBy(j)[i] = Line("mov" \o sel.ir[j].sub, <<Reg(ValOf(sel.ir[j])), Imm("#1")>>,
                              sel.ir[j].id)
        /\ AsmBy(j)[i + 1] = Line("mov" \o Negated(sel.ir[j].sub),
                                  <<Reg(ValOf(sel.ir[j])), Imm("#0")>>, sel.ir[j].id)

C18_UnsupportedAborts ==
    \A j \in 1..(sel.ip - 1) :
        (sel.ir[j].id \notin sel.dead /\ sel.ir[j].op \notin translator_handlers)
            => \A k \in (j + 1)..Len(sel.ir) : AsmBy(k) = <<>>

\* the identifiers resolved so far that the scopes bind to a formal parameter
ParamUses ==
    {i \in 1..Len(g.ulog) : g.ulog[i].ev = "use" /\ g.ulog[i].bound.k = "param"}
\* the assignments to the same parameter lowered before the use i
AssignedBefore(i) ==
    {j \in 1..(i - 1) :
        /\ g.ulog[j].ev = "assign"
        /\ g.ulog[j].func = g.ulog[i].func
        /\ g.ulog[j].name = g.ulog[i].name}

\* C13: a use of a parameter's name lowered before every assignment to the
\* parameter resolves to the FormalParam; a use lowered after the first
\* assignment resolves to the parameter's shadow local
C13_ParamResolution ==
    \A i \in ParamUses :
        IF AssignedBefore(i) = {} THEN g.ulog[i].val = g.ulog[i].bound
        ELSE /\ g.ulog[i].val.k = "local"
             /\ \A j \in AssignedBefore(i) : g.ulog[i].val = g.ulog[j].val
\* a lowered function used its parameter before and after assigning to it
C13_Witness ==
    /\ status = "ok"
    /\ \E i, k \in ParamUses :
          /\ g.ulog[i].func = g.ulog[k].func
          /\ AssignedBefore(i) = {} /\ g.ulog[i].val.k = "param"
          /\ AssignedBefore(k) /= {} /\ g.ulog[k].val.k = "local"
          /\ \E f \in DoneFuncs : f.name = g.ulog[i].func

\* the copies Move(shadow local, formal) in the list of function f for its
\* override local ov
ParamCopies(f, ov) ==
    {j \in 1..Len(f.code) :
        /\ f.code[j].op = "move"
        /\ f.code[j].ops[1] = ov
        /\ f.code[j].ops[2].k = "param"
        /\ f.code[j].ops[2].n = ov.n}

\* C14: the list of a lowered function holds, for each parameter the
\* function assigns to, exactly one copy Move(shadow local, formal)
C14_SingleParamCopy ==
    \A f \in DoneFuncs : \A ov \in Range(f.overrides) : Cardinality(ParamCopies(f, ov)) = 1

\* the return statements lowered in function f
Returns(f) == {i \in 1..Len(g.rlog) : g.rlog[i].func = f.name}
\* the Move into the return slot emitted by the return statement e of f
ReturnMove(f, e) ==
    {j \in 1..Len(f.code) :
        /\ f.code[j].op = "move"
        /\ e.lo <= f.code[j].id /\ f.code[j].id < e.goto
        /\ f.code[j].ops[1] = f.retVal}
\* the return statement e of f ends in a goto to the exit label of f
ReturnBranches(f, e) ==
    /\ Pos(f.code, e.goto) /= 0
    /\ f.code[Pos(f.code, e.goto)].op = "goto"
    /\ f.code[Pos(f.code, e.goto)].ops[1] = f.exitLabel
\* the return statement e of f: the Move of the value right before the goto
ReturnMoves(f, e) ==
    /\ ReturnBranches(f, e)
    /\ \E j \in ReturnMove(f, e) : f.code[j].ops[2] = e.val /\ j + 1 = Pos(f.code, e.goto)
\* the return statement e of f: the goto and nothing else
ReturnOnlyBranches(f, e) ==
    /\ ReturnBranches(f, e)
    /\ \A j \in 1..Len(f.code) : ~(e.lo <= f.code[j].id /\ f.code[j].id < e.goto)
NonVoidFuncs == {f \in DoneFuncs : ~IsNull(f.retVal)}

\* C15: in a function that is not void, every return statement with an
\* expression emits the Move of the expression's value into the return
\* slot and then the goto to the exit label, and a return without
\* expression emits the goto only
C15_ReturnMovesValue ==
    \A f \in NonVoidFuncs : \A i \in Returns(f) :
        IF IsNull(g.rlog[i].val) THEN ReturnOnlyBranches(f, g.rlog[i])
        ELSE ReturnMoves(f, g.rlog[i])
\* C15, amended: as above, except that a return of the literal 0 emits the
\* goto only, the return slot having been set to 0 at the function's start
C15_ReturnMovesValueButZero ==
    \A f \in NonVoidFuncs : \A i \in Returns(f) :
        IF IsNull(g.rlog[i].val) \/ g.rlog[i].val = ConstInt(0)
        THEN ReturnOnlyBranches(f, g.rlog[i])
        ELSE ReturnMoves(f, g.rlog[i])
\* a lowered function that is not void returns a variable's value and
\* returns the literal 0
C15_Witness ==
    \E f \in NonVoidFuncs : \E i, j \in Returns(f) :
        /\ g.rlog[i].val.k = "local" /\ ReturnMoves(f, g.rlog[i])
        /\ g.rlog[j].val = ConstInt(0) /\ ReturnOnlyBranches(f, g.rlog[j])

\* C16: ir_compile_unit gives up with an error only after it has visited
\* every top-level definition, those after a failing function included
C16_RemainingDefinitionsVisited == status = "error" => pc = Len(prog)

\* C17: a function whose lowering failed has no instruction in its list
C17_FailedFunctionEmpty == \A f \in Funcs : ~f.done => f.code = <<>>

\* the identifier the compile units declare nowhere
Undeclared == "u"
\* node or one of its descendants is the identifier name
RECURSIVE Mentions(_, _)
Mentions(node, name) ==
    \/ node.op = "var" /\ node.name = name
    \/ \E j \in 1..Len(node.sons) : Mentions(node.sons[j], name)

\* C19: the lowering of a function that refers to an identifier bound in no
\* scope fails, and the function gets no variable of that name
C19_UndeclaredIdentifierFails ==
    \A k \in 1..pc :
        (prog[k].op = "func_def" /\ Mentions(prog[k], Undeclared))
            => \A f \in Funcs :
                  f.name = prog[k].sons[2].name
                      => ~f.done /\ \A v \in Range(f.vars) : v.n /= Undeclared

\* C20: no void function with a return statement that has an expression is
\* lowered without error
C20_VoidReturnValueFails ==
    \A f \in DoneFuncs : IsNull(f.retVal) => \A i \in Returns(f) : IsNull(g.rlog[i].val)

\* the calls translated so far
TranslatedCalls ==
    {j \in 1..Len(sel.ir) : j < sel.ip /\ sel.ir[j].op = "call" /\ sel.ir[j].id \notin sel.dead}
\* the line l puts the value v into the register r<k>
PlacesIn(l, v, k) == l.m \in {"mov", "ldr"} /\ l.a = <<Reg(intRegVal(k)), Reg(v)>>
\* the line l stores the value v at sp + off
StoresAt(l, v, off) == l.m = "str" /\ l.a[1].of = v.i /\ l.a[2] = [kind |-> "mem", of |-> off, s |-> "sp"]
\* the line l puts r0 into the value v
TakesResult(l, v) ==
    \/ l.m = "mov" /\ l.a = <<Reg(v), Reg(intRegVal(0))>>
    \/ l.m = "str" /\ l.a = <<Reg(intRegVal(0)), Reg(v)>>
\* the assembly of the call inst is right: one bl of the callee; before it,
\* argument k in rk for k < 4 and at sp + 4 * (k - 4) for k >= 4; after it,
\* the move of r0 into the result of a call that has one, and nothing else
CallAsm(inst, a) ==
    \E b \in 1..Len(a) :
        /\ Where(a, {"bl"}) = {b}
        /\ a[b].a = <<Lab(inst.sub)>>
        /\ \A k \in 0..(Len(inst.ops) - 1) :
              \E i \in 1..(b - 1) :
                 IF k < 4 THEN PlacesIn(a[i], inst.ops[k + 1], k)
                 ELSE StoresAt(a[i], inst.ops[k + 1], 4 * (k - 4))
        /\ inst.t # VoidTy => \E i \in (b + 1)..Len(a) : TakesResult(a[i], ValOf(inst))
        /\ inst.t = VoidTy => b = Len(a)

C22_RegistersFreed == status = "selecting" => sel.alloc.occ = sel.was
\* a mod whose operands live in memory has been translated: five registers
\* were taken and given back
C22_Witness ==
    /\ status = "selecting"
    /\ \E j \in 1..Len(sel.ir) :
          /\ j < sel.ip
          /\ sel.ir[j].op = "mod"
          /\ sel.ir[j].id \notin sel.dead
          /\ Cardinality({p \in 1..Len(mod_registers(sel.ir[j], sel)) :
                            mod_registers(sel.ir[j], sel)[p][1] = "Allocate"}) = 5
    /\ sel.alloc.occ = {}

\* C23: every scope pushed on the scope stack while lowering a block or a
\* function body has been popped when the lowering of that block or function
\* returns, on the success path and on every failure path: after the lowering
\* of a function the scope stack is as deep as before it, the global scope
\* alone
C23_ScopesPopped == Len(g.scopes) = 1

BranchOperands(e) ==
    IF e.op = "goto" THEN {<<e.names[1], g.funcs[e.fi].code[e.at].ops[1].i>>}
    ELSE IF e.op = "bc"
    THEN {<<e.names[1], g.funcs[e.fi].code[e.at].ops[2].i>>,
          <<e.names[2], g.funcs[e.fi].code[e.at].ops[3].i>>}
    ELSE {}

NameAt(e, now) ==
    IF e.loop
    THEN loopTempVarName(e, [now |-> now, loopTempVarCounter |-> e.counter])
    ELSE tempVarName(e, [now |-> now, tempVarCounter |-> e.counter,
                         inLoopContext |-> e.inLoopContext])

\* C25: the names given to the array-access temporaries depend on the
\* program only, not on the time at which lowering runs: each is the name the
\* same lowering gives at any other time
C25_NamesTimeless ==
    \A j \in 1..Len(g.tlog) : \A now \in Times : g.tlog[j].val.n = NameAt(g.tlog[j], now)

\* the instructions that end an array address computation: base plus offset
FinalAddresses == {e.addr.i : e \in {a \in Range(g.alog) : a.addr.k = "inst"}}
Arithmetic == {"add", "sub", "mul", "div", "mod"}

\* C26: every value-defining instruction other than Move that lowering emits
\* has the result type fixed by its opcode: a compare has type i1, an
\* arithmetic instruction type i32, and the final base-plus-offset
\* instruction of an array address computation type pointer to i32
C26_TypeByOpcode ==
    \A inst \in AllInsts :
        /\ inst.op = "icmp" => inst.t = BoolTy
        /\ inst.op \in Arithmetic =>
              inst.t = IF inst.id \in FinalAddresses THEN PtrTy ELSE IntTy
        /\ inst.id \in FinalAddresses => inst.op = "add"
\* a lowered function holds a compare, an i32 multiplication and the final
\* address of an array access lowered inside a loop
C26_Witness ==
    \E f \in DoneFuncs :
        /\ \E inst \in Range(f.code) : inst.op = "icmp"
        /\ \E inst \in Range(f.code) : inst.op = "mul" /\ inst.t = IntTy
        /\ \E a \in Range(g.alog) :
              a.inLoop /\ \E i \in Range(f.code) : i.id = a.addr.i /\ i.t = PtrTy

\* C27: when the lowering of a while statement returns successfully, the
\* loop state (the stack of label names, the stack of label instructions,
\* the current start and end label instructions and names, the
\* inside-loop-body flag) is what it was when the lowering of that while
\* began, at any nesting depth
C27_LoopStateRestored == \A w \in Range(g.wlog) : w.after = w.before
\* a while nested in the body of another has been lowered
C27_Witness ==
    /\ status = "ok"
    /\ \E w \in Range(g.wlog) :
          /\ w.before.inLoopContext
          /\ w.before.whileLabels /= <<>>
          /\ ~IsNull(w.before.currentWhileEndLabelInst)

\* the return statements with an expression of the function being executed
\* whose goto the run has taken last
ReturnTaken ==
    {e \in Range(g.rlog) : e.func = g.funcs[walk.fi].name /\ e.goto = walk.via
                             /\ ~IsNull(e.val)}
AtExitLabel == Running /\ Current.op = "label" /\ Current.id = g.funcs[walk.fi].exitLabel.i

\* C28: on every execution path of a lowered non-void function that reaches
\* the exit label through a return statement, the return-value slot holds
\* the value of that return's expression when the exit label is reached;
\* this includes return 0, whose value the slot has from function entry
C28_SlotHoldsReturned ==
    (AtExitLabel /\ ~IsNull(g.funcs[walk.fi].retVal)) =>
        \A e \in ReturnTaken : walk.slot = e.val
\* the exit label is reached through a return 0 that made no Move, after a
\* loop was run through
C28_Witness ==
    /\ AtExitLabel
    /\ ~IsNull(g.funcs[walk.fi].retVal)
    /\ walk.back > 0
    /\ \E e \in ReturnTaken :
          /\ e.val = ConstInt(0)
          /\ \A inst \in Range(Code) : inst.op = "move" => ~(e.lo <= inst.id /\ inst.id < e.goto)

\* C29: a variable declaration inside a function whose name is already
\* visible from an outer scope or as a global creates a new Local distinct
\* from the existing binding, and the name resolves to the new Local in the
\* declaring scope (so that assignments to it leave the outer variable alone)
C29_DeclarationShadows ==
    \A d \in Range(g.dlog) :
        (d.func /= "" /\ ~IsNull(d.outer) /\ ~d.here) =>
            /\ d.val.k = "local"
            /\ d.val /= d.outer
            /\ d.bound = d.val

====
